---- MODULE Spec2Model ----
(***************************************************************************)
(* Command orchestration and agent execution engine of mcp-lanonasis-com:  *)
(* the command resolver, the orchestrator and its contextual wrapper, the  *)
(* BaseAgent execution wrapper, the ExecutionAgent and the EmbeddingAgent. *)
(*                                                                         *)
(* Text is a sequence of one-character strings, so that toLowerCase, trim, *)
(* includes and startsWith are computed as the code computes them.         *)
(* JavaScript values that may be absent are carried with an explicit       *)
(* "undefined" marker; numbers that the code computes in floating point    *)
(* (the running statistics) are exact rationals with Infinity and NaN.     *)
(***************************************************************************)
EXTENDS Integers, Sequences, FiniteSets, TLC

\* ------------------------------------------------------------------------
\* Bounds of the model
\* ------------------------------------------------------------------------
MaxBatch == 2          \* longest input list handed to orchestrateBatch
MaxDelay == 1          \* largest number of clock units one await may take
MaxTime == 2           \* the clock stops advancing here

\* ------------------------------------------------------------------------
\* State
\* ------------------------------------------------------------------------
VARIABLES
    now,         \* Date.now()
    orch,        \* the entry-point call in flight, suspended on its handler
    delivered,   \* what the last completed entry-point call gave its caller
    context,     \* ContextualOrchestrator.context
    events,      \* resolve / dispatch / settle steps of the call in flight
    config,      \* AgentConfig: name and timeout (0 when not configured)
    stats,       \* BaseAgent.stats
    calls,       \* the execute calls made so far, in the order they started
    wasReset,    \* resetStats has been called
    cache,       \* EmbeddingAgent.cache
    embeds,      \* the process() calls of the EmbeddingAgent, as they started
    exec,        \* the process() call of the ExecutionAgent in flight, or the last
    parse        \* a resolveCommand call: its input and what it settled with

orchVars == <<orch, delivered, context, events>>
agentVars == <<config, stats, calls, wasReset>>
embedVars == <<cache, embeds>>
vars == <<now, orch, delivered, context, events, config, stats, calls, wasReset,
          cache, embeds, exec, parse>>

\* what the steps of one part leave alone
besidesOrch == <<agentVars, embedVars, exec, parse>>
besidesAgent == <<orchVars, embedVars, exec, parse>>
besidesEmbed == <<now, orchVars, agentVars, exec, parse>>
besidesExec == <<now, orchVars, agentVars, embedVars, parse>>
besidesParse == <<now, orchVars, agentVars, embedVars, exec>>

\* ------------------------------------------------------------------------
\* Text primitives (String.prototype.*)
\* ------------------------------------------------------------------------
UPPER == <<"A","B","C","D","E","F","G","H","I","J","K","L","M",
           "N","O","P","Q","R","S","T","U","V","W","X","Y","Z">>
LOWER == <<"a","b","c","d","e","f","g","h","i","j","k","l","m",
           "n","o","p","q","r","s","t","u","v","w","x","y","z">>

toLowerChar(c) ==
    IF \E k \in 1..26 : UPPER[k] = c
    THEN LOWER[CHOOSE k \in 1..26 : UPPER[k] = c]
    ELSE c

toLowerCase(s) == [i \in 1..Len(s) |-> toLowerChar(s[i])]

isSpace(c) == c = " "

RECURSIVE trimStart(_)
trimStart(s) == IF s # <<>> /\ isSpace(Head(s)) THEN trimStart(Tail(s)) ELSE s

RECURSIVE trimEnd(_)
trimEnd(s) ==
    IF s # <<>> /\ isSpace(s[Len(s)]) THEN trimEnd(SubSeq(s, 1, Len(s) - 1)) ELSE s

trim(s) == trimEnd(trimStart(s))

\* kw occurs in s starting at position i
matchAt(s, kw, i) ==
    /\ i + Len(kw) - 1 <= Len(s)
    /\ \A j \in 1..Len(kw) : s[i + j - 1] = kw[j]

includes(s, kw) == \E i \in 1..(Len(s) + 1) : matchAt(s, kw, i)

startsWith(s, kw) == matchAt(s, kw, 1)

\* RegExp.test for an alternation of literals: /a|b|c/
testAny(s, alternatives) == \E kw \in alternatives : includes(s, kw)

\* RegExp.test for /a\s+b/ : a, one or more white-space characters, b
testSpaced(s, a, b) ==
    \E i \in 1..(Len(s) + 1) : \E k \in 1..Len(s) :
        /\ matchAt(s, a, i)
        /\ \A j \in 0..(k - 1) : i + Len(a) + j <= Len(s) /\ isSpace(s[i + Len(a) + j])
        /\ matchAt(s, b, i + Len(a) + k)

\* ------------------------------------------------------------------------
\* Command resolver (orchestrator/parser)
\* ------------------------------------------------------------------------
memoryKeywords ==
    { <<"m","e","m","o","r","y">>, <<"m","e","m","o","r","i","e","s">>, <<"r","e","m","e","m","b","e","r">>,
      <<"r","e","c","a","l","l">>, <<"s","e","a","r","c","h">>, <<"f","i","n","d">>,
      <<"l","o","o","k"," ","f","o","r">>, <<"c","r","e","a","t","e">>, <<"a","d","d">>,
      <<"s","t","o","r","e">>, <<"s","a","v","e">>, <<"n","o","t","e">>, <<"n","o","t","e","s">>,
      <<"k","n","o","w","l","e","d","g","e">>, <<"l","i","s","t">>, <<"s","h","o","w">>,
      <<"d","i","s","p","l","a","y">>, <<"g","e","t">>, <<"r","e","t","r","i","e","v","e">>,
      <<"d","e","l","e","t","e">>, <<"r","e","m","o","v","e">>, <<"u","p","d","a","t","e">>,
      <<"e","d","i","t">>, <<"m","o","d","i","f","y">>, <<"t","o","p","i","c">>, <<"t","o","p","i","c","s">>,
      <<"s","t","a","t","s">>, <<"s","t","a","t","i","s","t","i","c","s">> }

isMemoryCommand(input) == \E keyword \in memoryKeywords : includes(input, keyword)

uiKeywords ==
    { <<"o","p","e","n">>, <<"s","h","o","w">>, <<"d","i","s","p","l","a","y">>, <<"l","a","u","n","c","h">>,
      <<"s","t","a","r","t">>, <<"g","o"," ","t","o">>, <<"n","a","v","i","g","a","t","e">>,
      <<"d","a","s","h","b","o","a","r","d">>, <<"v","i","s","u","a","l","i","z","e","r">>,
      <<"u","p","l","o","a","d","e","r">>, <<"u","p","l","o","a","d">>,
      <<"i","n","t","e","r","f","a","c","e">>, <<"s","e","t","t","i","n","g","s">>, <<"h","e","l","p">>,
      <<"v","i","e","w">>, <<"p","a","n","e","l">> }

uiViews ==
    { <<"d","a","s","h","b","o","a","r","d">>, <<"v","i","s","u","a","l","i","z","e","r">>,
      <<"u","p","l","o","a","d","e","r">>, <<"i","n","t","e","r","f","a","c","e">>, <<"u","i">>,
      <<"o","p","e","n">> }

\* any keyword of the UI makes a UI command
anyKeyword(input) == \E keyword \in uiKeywords : includes(input, keyword)

isUICommand(input) ==
    /\ \E keyword \in uiKeywords : includes(input, keyword)
    /\ \E view \in uiViews : includes(input, view)

stripeKeywords ==
    { <<"s","t","r","i","p","e">>, <<"p","a","y","m","e","n","t">>,
      <<"t","r","a","n","s","a","c","t","i","o","n">>, <<"c","h","a","r","g","e">>,
      <<"b","i","l","l","i","n","g">> }

isStripeCommand(input) == \E keyword \in stripeKeywords : includes(input, keyword)

\* the fallback accepts a text of three characters
atLeastThree(input) ==
    /\ Len(input) >= 3
    /\ ~includes(input, <<"?">>)
    /\ ~startsWith(input, <<"/">>)
    /\ ~startsWith(input, <<"h","e","l","p">>)

isSearchQuery(input) ==
    /\ Len(input) > 3
    /\ ~includes(input, <<"?">>)
    /\ ~startsWith(input, <<"/">>)
    /\ ~startsWith(input, <<"h","e","l","p">>)

\* The action tests of parseMemoryCommand, in the order of its if / else-if chain

searchVerbs ==
    { <<"s","e","a","r","c","h">>, <<"f","i","n","d">>, <<"r","e","c","a","l","l">>,
      <<"r","e","t","r","i","e","v","e">> }

createVerbs ==
    { <<"c","r","e","a","t","e">>, <<"a","d","d">>, <<"s","t","o","r","e">>, <<"s","a","v","e">>,
      <<"n","e","w">>, <<"m","a","k","e">> }

listVerbs ==
    { <<"l","i","s","t">>, <<"s","h","o","w">>, <<"d","i","s","p","l","a","y">> }

topicWords ==
    { <<"t","o","p","i","c">>, <<"t","o","p","i","c","s">> }

topicCreateVerbs ==
    { <<"c","r","e","a","t","e">>, <<"a","d","d">>, <<"n","e","w">> }

statsWords ==
    { <<"s","t","a","t","s">>, <<"s","t","a","t","i","s","t","i","c","s">>, <<"s","u","m","m","a","r","y">>,
      <<"o","v","e","r","v","i","e","w">> }

deleteVerbs ==
    { <<"d","e","l","e","t","e">>, <<"r","e","m","o","v","e">>, <<"t","r","a","s","h">> }

\* Literals of the patterns with a gap or a capture
LOOK == <<"l","o","o","k">>
FOR == <<"f","o","r">>
GET == <<"g","e","t">>
ALL == <<"a","l","l">>
MY == <<"m","y">>
MEMORY == <<"m","e","m","o","r","y">>
ID == <<"i","d">>
DASHBOARD == <<"d","a","s","h","b","o","a","r","d">>
TOPIC == <<"t","o","p","i","c">>
ADD == <<"a","d","d">>
FILE == <<"f","i","l","e">>

\* /look\s+for/ and /get\s+(all|my)/ are the two patterns with a white-space gap
\* only the word search starts a search
searchWord(lower) == includes(lower, <<"s","e","a","r","c","h">>)

testSearch(lower) == testAny(lower, searchVerbs) \/ testSpaced(lower, LOOK, FOR)

testList(lower) ==
    \/ testAny(lower, listVerbs)
    \/ testSpaced(lower, GET, ALL)
    \/ testSpaced(lower, GET, MY)

\* [a-f0-9-] and [a-f0-9], both under the i flag
hexDigits == {"a","b","c","d","e","f","0","1","2","3","4","5","6","7","8","9"}
isIdChar(c) == toLowerChar(c) \in hexDigits \cup {"-"}
isHexChar(c) == toLowerChar(c) \in hexDigits

\* length of the longest run of characters of a class that starts at position i
RECURSIVE runOf(_, _, _)
runOf(s, i, dashAllowed) ==
    IF i <= Len(s) /\ (IF dashAllowed THEN isIdChar(s[i]) ELSE isHexChar(s[i]))
    THEN 1 + runOf(s, i + 1, dashAllowed)
    ELSE 0

RECURSIVE spacesAt(_, _)
spacesAt(s, i) == IF i <= Len(s) /\ isSpace(s[i]) THEN 1 + spacesAt(s, i + 1) ELSE 0

\* /memory\s+([a-f0-9-]+)/i matched with "memory" at position i: the capture
\* starts after the white space
memoryIdStart(s, i) == i + 6 + spacesAt(s, i + 6)
memoryIdAt(s, i) ==
    /\ matchAt(toLowerCase(s), MEMORY, i)
    /\ spacesAt(s, i + 6) >= 1
    /\ runOf(s, memoryIdStart(s, i), TRUE) >= 1

\* /id:?\s*([a-f0-9-]+)/i matched with "id" at position i
idStart(s, i) ==
    LET afterColon == IF i + 2 <= Len(s) /\ s[i + 2] = ":" THEN i + 3 ELSE i + 2
    IN  afterColon + spacesAt(s, afterColon)
idAt(s, i) ==
    /\ matchAt(toLowerCase(s), ID, i)
    /\ runOf(s, idStart(s, i), TRUE) >= 1

\* /([a-f0-9]{8,})/i matched at position i
hexRunAt(s, i) == runOf(s, i, FALSE) >= 8

\* The capture of the first pattern that matches, at its leftmost match;
\* the empty text stands for undefined (a capture is never empty).
extractMemoryId(input) ==
    LET positions == 1..Len(input)
        first(P(_)) == CHOOSE i \in positions : P(i) /\ \A j \in positions : P(j) => i <= j
        P1(i) == memoryIdAt(input, i)
        P2(i) == idAt(input, i)
        P3(i) == hexRunAt(input, i)
        capture(from, dashAllowed) ==
            SubSeq(input, from, from + runOf(input, from, dashAllowed) - 1)
    IN  IF \E i \in positions : P1(i)
        THEN capture(memoryIdStart(input, first(P1)), TRUE)
        ELSE IF \E i \in positions : P2(i)
        THEN capture(idStart(input, first(P2)), TRUE)
        ELSE IF \E i \in positions : P3(i)
        THEN capture(first(P3), FALSE)
        ELSE <<>>

\* Literals of the query and number patterns
FROM == <<"f","r","o","m">>
sourceNouns ==
    { MEMORY, <<"m","e","m","o","r","i","e","s">>, <<"n","o","t","e">>,
      <<"k","n","o","w","l","e","d","g","e">> }
searchLimitWords ==
    { <<"l","i","m","i","t">>, <<"r","e","s","u","l","t">>, <<"r","e","s","u","l","t","s">>,
      <<"m","a","x">> }
listLimitWords ==
    { <<"l","i","m","i","t">>, <<"m","a","x">>, <<"f","i","r","s","t">>, <<"l","a","s","t">> }

\* the least number of a non-empty set of positions
leftmost(positions) == CHOOSE i \in positions : \A j \in positions : i <= j

\* length of the match of /^(search|find|look\s+for|recall|retrieve)\s*/i,
\* 0 when the text does not start with one of the command words
leadLength(s) ==
    LET lower == toLowerCase(s)
        verbs == {v \in searchVerbs : startsWith(lower, v)}
        gap == spacesAt(s, 5)
        verb == IF verbs # {} THEN Len(CHOOSE v \in verbs : TRUE)
                ELSE IF startsWith(lower, LOOK) /\ gap >= 1 /\ matchAt(lower, FOR, 5 + gap)
                THEN 7 + gap
                ELSE 0
    IN  IF verb = 0 THEN 0 ELSE verb + spacesAt(s, verb + 1)

\* /\s*(in|from)\s+(memory|memories|notes?|knowledge).*$/i matches from
\* position i to the end (the texts have no line terminator)
sourceAt(s, lower, i) ==
    \E prep \in {<<"i","n">>, FROM} :
        LET p == i + spacesAt(s, i)
            gap == spacesAt(s, p + Len(prep))
        IN  /\ matchAt(lower, prep, p)
            /\ gap >= 1
            /\ \E noun \in sourceNouns : matchAt(lower, noun, p + Len(prep) + gap)

\* query.replace(/\s*(in|from)\s+(memory|memories|notes?|knowledge).*$/i, '')
\* cuts the text at the leftmost match
stripSource(s) ==
    LET lower == toLowerCase(s)
        matches == {i \in 1..Len(s) : sourceAt(s, lower, i)}
    IN  IF matches # {} THEN SubSeq(s, 1, leftmost(matches) - 1) ELSE s

\* args.query of a search command
searchQuery(original) ==
    LET trimmed == trim(original)
        query == stripSource(SubSeq(trimmed, leadLength(trimmed) + 1, Len(trimmed)))
    IN  IF query # <<>> THEN query ELSE original

DIGITS == <<"0","1","2","3","4","5","6","7","8","9">>
isDigit(c) == \E k \in 1..10 : DIGITS[k] = c
digitValue(c) == (CHOOSE k \in 1..10 : DIGITS[k] = c) - 1

\* parseInt of the run of digits that starts at position i, read after the
\* digits before it have the value sofar
RECURSIVE parseInt(_, _, _)
parseInt(s, i, sofar) ==
    IF i <= Len(s) /\ isDigit(s[i])
    THEN parseInt(s, i + 1, 10 * sofar + digitValue(s[i]))
    ELSE sofar

\* the position of the digits captured by /(?:words)\s+(\d+)/i when it
\* matches at position i, 0 when it does not
captureAt(input, lower, words, i) ==
    LET found == {w \in words : matchAt(lower, w, i)}
        after == i + Len(CHOOSE w \in found : TRUE)
        gap == spacesAt(input, after)
    IN  IF found # {} /\ gap >= 1 /\ after + gap <= Len(input) /\ isDigit(input[after + gap])
        THEN after + gap
        ELSE 0

\* extractNumber: the number captured by /(?:words)\s+(\d+)/i at its
\* leftmost match, -1 for undefined
extractNumber(input, words) ==
    LET lower == toLowerCase(input)
        captures == [i \in 1..Len(input) |-> captureAt(input, lower, words, i)]
        matches == {i \in 1..Len(input) : captures[i] > 0}
    IN  IF matches # {} THEN parseInt(input, captures[leftmost(matches)], 0) ELSE -1

\* extractNumber(...) || fallback
orDefault(number, fallback) == IF number > 0 THEN number ELSE fallback

\* Object.entries(typeMap) of extractMemoryTypes
typeMap ==
    << [key |-> <<"c","o","n","v","e","r","s","a","t","i","o","n">>, value |-> "conversation"],
       [key |-> <<"c","o","n","v","e","r","s","a","t","i","o","n","s">>, value |-> "conversation"],
       [key |-> <<"c","h","a","t">>, value |-> "conversation"],
       [key |-> <<"c","h","a","t","s">>, value |-> "conversation"],
       [key |-> <<"k","n","o","w","l","e","d","g","e">>, value |-> "knowledge"],
       [key |-> <<"l","e","a","r","n","i","n","g">>, value |-> "knowledge"],
       [key |-> <<"e","d","u","c","a","t","i","o","n">>, value |-> "knowledge"],
       [key |-> <<"p","r","o","j","e","c","t">>, value |-> "project"],
       [key |-> <<"p","r","o","j","e","c","t","s">>, value |-> "project"],
       [key |-> <<"w","o","r","k">>, value |-> "project"],
       [key |-> <<"c","o","n","t","e","x","t">>, value |-> "context"],
       [key |-> <<"g","e","n","e","r","a","l">>, value |-> "context"],
       [key |-> <<"r","e","f","e","r","e","n","c","e">>, value |-> "reference"],
       [key |-> <<"r","e","f","e","r","e","n","c","e","s">>, value |-> "reference"],
       [key |-> <<"d","o","c","s">>, value |-> "reference"],
       [key |-> <<"d","o","c","u","m","e","n","t","a","t","i","o","n">>, value |-> "reference"] >>

\* the memory types found from entry k of typeMap on, after those found
\* before it
RECURSIVE typesFrom(_, _, _)
typesFrom(input, k, found) ==
    IF k > Len(typeMap) THEN found
    ELSE typesFrom(input, k + 1,
                   IF /\ includes(input, typeMap[k].key)
                      /\ \A f \in 1..Len(found) : found[f] # typeMap[k].value
                   THEN Append(found, typeMap[k].value)
                   ELSE found)

extractMemoryTypes(input) == typesFrom(input, 1, <<>>)

\* The args of a ParsedCommand.  The model keeps the query, the limit, the
\* id, the memory types (args.type of a search, args.memory_types of a list),
\* the title and the content; <<>> and 0 stand for an entry that is absent.
Args(query, limit, id) ==
    [query |-> query, limit |-> limit, id |-> id, types |-> <<>>,
     title |-> <<>>, content |-> <<>>]
NoArgs == Args(<<>>, 0, <<>>)

\* if (types.length > 0) args.type = types
withTypes(args, types) == [args EXCEPT !.types = types]

\* A ParsedCommand: tool, action, args, confidence (in hundredths) and the
\* original input.
ParsedCommand(tool, action, args, confidence, original) ==
    [tool |-> tool, action |-> action, args |-> args, confidence |-> confidence,
     originalInput |-> original]

NoCommand == ParsedCommand("undefined", "undefined", NoArgs, 0, <<>>)

\* original.match(/"([^"]+)"/g) with the quotes sliced off: the segments
\* matched from position i on, each match starting at the leftmost quote
\* that has a character other than a quote and then a quote after it
RECURSIVE quotedFrom(_, _)
quotedFrom(s, i) ==
    LET opens == {p \in i..(Len(s) - 2) :
                    /\ s[p] = "\""
                    /\ s[p + 1] # "\""
                    /\ \E q \in (p + 2)..Len(s) : s[q] = "\""}
        closes(p) == {q \in (p + 2)..Len(s) : s[q] = "\""}
    IN  IF opens = {} THEN <<>>
        ELSE <<SubSeq(s, leftmost(opens) + 1, leftmost(closes(leftmost(opens))) - 1)>>
             \o quotedFrom(s, leftmost(closes(leftmost(opens))) + 1)

quotedContent(original) == quotedFrom(original, 1)

TitleLength == 50

\* s.substring(0, n)
substring(s, n) == SubSeq(s, 1, IF Len(s) < n THEN Len(s) ELSE n)

stops == {".", "!", "?"}

\* content.split(/[.!?]+/): whether it has more than one part, and part 0
sentenceEnds(content) == {i \in 1..Len(content) : content[i] \in stops}
firstSentence(content) == SubSeq(content, 1, leftmost(sentenceEnds(content)) - 1)

createNouns == { MEMORY, <<"n","o","t","e">> }

\* length of the match of /^(create|add|store|save|new|make)\s*(memory|note)?\s*/i
createLead(s) ==
    LET lower == toLowerCase(s)
        verbs == {v \in createVerbs : startsWith(lower, v)}
        verb == IF verbs # {} THEN Len(CHOOSE v \in verbs : TRUE) ELSE 0
        noun == verb + spacesAt(s, verb + 1)
        nouns == {n \in createNouns : matchAt(lower, n, noun + 1)}
        after == IF nouns # {} THEN noun + Len(CHOOSE n \in nouns : TRUE) ELSE noun
    IN  IF verb = 0 THEN 0 ELSE after + spacesAt(s, after + 1)

NewMemory == <<"N","e","w"," ","M","e","m","o","r","y">>
CreatedVia ==
    <<"M","e","m","o","r","y"," ","c","r","e","a","t","e","d"," ","v","i","a"," ",
      "o","r","c","h","e","s","t","r","a","t","o","r">>

withText(args, title, content) == [args EXCEPT !.title = title, !.content = content]

\* args.title and args.content of a create command
createArgs(original, quoted) ==
    IF Len(quoted) >= 2 THEN withText(NoArgs, quoted[1], quoted[2])
    ELSE IF Len(quoted) = 1
    THEN IF sentenceEnds(quoted[1]) # {} /\ firstSentence(quoted[1]) # <<>>
         THEN withText(NoArgs, trim(firstSentence(quoted[1])), quoted[1])
         ELSE withText(NoArgs, substring(quoted[1], TitleLength), quoted[1])
    ELSE LET remaining == SubSeq(original, createLead(original) + 1, Len(original))
         IN  withText(NoArgs,
                      IF remaining # <<>> THEN substring(remaining, TitleLength) ELSE NewMemory,
                      IF remaining # <<>> THEN remaining ELSE CreatedVia)

\* a delete command is given confidence 0.6 whether or not an id was found
deleteUnsure(id) == 60

\* the confidence of a delete command: 0.9 with an id, 0.6 without
deleteConfidence(id) == IF id # <<>> THEN 90 ELSE 60

parseMemoryCommand(original, lower) ==
    IF testSearch(lower)
    THEN ParsedCommand("memory", "search",
                       withTypes(Args(searchQuery(original),
                                      orDefault(extractNumber(lower, searchLimitWords), 10),
                                      <<>>),
                                 extractMemoryTypes(lower)),
                       90, original)
    ELSE IF testAny(lower, createVerbs)
    THEN ParsedCommand("memory", "create", createArgs(original, quotedContent(original)),
                       95, original)
    ELSE IF testList(lower)
    THEN ParsedCommand("memory", "list",
                       withTypes(Args(<<>>, orDefault(extractNumber(lower, listLimitWords), 20),
                                      <<>>),
                                 extractMemoryTypes(lower)),
                       90, original)
    ELSE IF testAny(lower, topicWords)
    THEN IF testAny(lower, topicCreateVerbs)
         THEN ParsedCommand("memory", "create-topic", NoArgs, 90, original)
         ELSE ParsedCommand("memory", "list-topics", NoArgs, 90, original)
    ELSE IF testAny(lower, statsWords)
    THEN ParsedCommand("memory", "stats", NoArgs, 95, original)
    ELSE IF testAny(lower, deleteVerbs)
    THEN LET id == extractMemoryId(original)
         IN  ParsedCommand("memory", "delete", Args(<<>>, 0, id), deleteConfidence(id), original)
    ELSE ParsedCommand("memory", "search", NoArgs, 80, original)

visualWords ==
    { <<"v","i","s","u","a","l","i","z","e">>, <<"v","i","s","u","a","l">>, <<"g","r","a","p","h">>,
      <<"n","e","t","w","o","r","k">> }

uploadWords ==
    { <<"u","p","l","o","a","d">>, <<"u","p","l","o","a","d","e","r">>, <<"i","m","p","o","r","t">> }

uiStatsWords ==
    { <<"s","t","a","t","s">>, <<"s","t","a","t","i","s","t","i","c","s">> }

settingsWords ==
    { <<"s","e","t","t","i","n","g">>, <<"c","o","n","f","i","g">>,
      <<"c","o","n","f","i","g","u","r","a","t","i","o","n">> }

helpWords ==
    { <<"h","e","l","p">>, <<"a","s","s","i","s","t","a","n","c","e">>, <<"g","u","i","d","e">> }

parseUICommand(original, lower) ==
    IF includes(lower, DASHBOARD) THEN ParsedCommand("ui", "open-dashboard", NoArgs, 95, original)
    ELSE IF testAny(lower, visualWords) THEN ParsedCommand("ui", "open-visualizer", NoArgs, 95, original)
    ELSE IF testAny(lower, uploadWords) \/ testSpaced(lower, ADD, FILE)
    THEN ParsedCommand("ui", "open-uploader", NoArgs, 90, original)
    ELSE IF testAny(lower, uiStatsWords) THEN ParsedCommand("ui", "show-stats", NoArgs, 90, original)
    ELSE IF includes(lower, TOPIC) THEN ParsedCommand("ui", "show-topics", NoArgs, 90, original)
    ELSE IF testAny(lower, settingsWords) THEN ParsedCommand("ui", "open-settings", NoArgs, 90, original)
    ELSE IF testAny(lower, helpWords) THEN ParsedCommand("ui", "show-help", NoArgs, 90, original)
    ELSE ParsedCommand("ui", "open-dashboard", NoArgs, 80, original)

transactionWords ==
    { <<"t","r","a","n","s","a","c","t","i","o","n">>, <<"p","a","y","m","e","n","t">>,
      <<"c","h","a","r","g","e">> }

\* a payment command asks for a sync
parseStripeSync(original, lower) ==
    ParsedCommand("stripe", "sync-transactions", NoArgs, 90, original)

parseStripeCommand(original, lower) ==
    IF testAny(lower, transactionWords)
    THEN ParsedCommand("stripe", "list-transactions", NoArgs, 90, original)
    ELSE ParsedCommand("stripe", "list-transactions", NoArgs, 80, original)

\* What an async function hands to its awaiter: a value or a thrown error
Return(v) == [threw |-> FALSE, value |-> v, error |-> "undefined"]
Throw(message, novalue) == [threw |-> TRUE, value |-> novalue, error |-> message]

resolveCommand(input) ==
    LET lowerInput == trim(toLowerCase(input))
    IN  IF isMemoryCommand(lowerInput) THEN Return(parseMemoryCommand(input, lowerInput))
        ELSE IF isUICommand(lowerInput) THEN Return(parseUICommand(input, lowerInput))
        ELSE IF isStripeCommand(lowerInput) THEN Return(parseStripeCommand(input, lowerInput))
        ELSE IF isSearchQuery(lowerInput)
        THEN Return(ParsedCommand("memory", "search", Args(trim(input), 10, <<>>), 70, input))
        ELSE Throw("Could not resolve command", NoCommand)

\* ------------------------------------------------------------------------
\* resolveCommand called on its own
\* ------------------------------------------------------------------------
\* how the inputs begin and how they go on
Leads ==
    { <<>>, <<" ">>, <<"?">>, <<"/">>, <<"h","e","l","p"," ">>, <<"h","i"," ">>,
      <<"s","e","a","r","c","h"," ","f","o","r"," ">>, <<"F","i","n","d"," ">>,
      <<"l","o","o","k"," "," ","f","o","r"," ">>, <<"d","e","l","e","t","e"," ">>,
      <<"R","e","m","o","v","e"," ","m","e","m","o","r","y"," ">>,
      <<"c","r","e","a","t","e"," ">>, <<"l","i","s","t"," ">>, <<"t","r","a","s","h"," ">>,
      <<"b","i","l","l","i","n","g"," ">>, <<"o","p","e","n"," ">> }

Rests ==
    { <<>>, <<"a","b","c">>, <<"a","b","c","d">>,
      <<"o","n","b","o","a","r","d","i","n","g"," ","d","o","c","s">>,
      <<"n","o","t","e","s"," ","i","n"," ","m","e","m","o","r","y">>,
      <<"m","e","m","o","r","y"," ","1","2","a","b">>, <<"i","t","?">>,
      <<"l","i","m","i","t"," ","5">>, <<"d","e","a","d","b","e","e","f","9","9">>,
      <<"m","a","x"," ","0">> }

\* the commands the documentation gives as examples
Examples ==
    { <<"s","e","a","r","c","h"," ","f","o","r"," ","A","P","I"," ","d","o","c","u","m","e","n","t","a","t","i","o","n">>,
      <<"c","r","e","a","t","e"," ","m","e","m","o","r","y"," ","a","b","o","u","t"," ","m","e","e","t","i","n","g">>,
      <<"o","p","e","n"," ","m","e","m","o","r","y"," ","v","i","s","u","a","l","i","z","e","r">>,
      <<"s","h","o","w"," ","m","y"," ","p","r","o","j","e","c","t"," ","m","e","m","o","r","i","e","s">>,
      <<"l","i","s","t"," ","m","y"," ","t","o","p","i","c","s">>,
      <<"o","p","e","n"," ","d","a","s","h","b","o","a","r","d">> }

\* inputs with keywords of several categories
Blends ==
    { <<"o","p","e","n"," ","b","i","l","l","i","n","g"," ","p","a","n","e","l">>,
      <<"l","a","u","n","c","h"," ","q","u","i","z">> }

\* inputs with quoted segments
Quoted ==
    { <<"c","r","e","a","t","e"," ","m","e","m","o","r","y"," ","\"","L","a","u","n","c","h","\""," ","\"","S","h","i","p"," ","v","2","\"">>,
      <<"a","d","d"," ","\"","f","i","n","d"," ","m","e","\""," ","\"","l","a","t","e","r","\"">>,
      <<"s","a","v","e"," ","\"","P","l","a","n",".", " ","S","h","i","p","\"">>,
      <<"s","t","o","r","e"," ","\"","!","n","o","w","\"">>,
      <<"s","a","v","e"," ","\"","\""," ","\"","a","\""," ","\"","b","\"">>,
      <<"l","i","s","t"," ","n","e","w"," ","\"","a","\""," ","\"","b","\"">>,
      <<"t","r","a","s","h"," ","s","u","m","m","a","r","y"," ","1","2","3","4","a","b","c","d">>,
      <<"r","e","m","o","v","e"," ","t","o","p","i","c"," ","1","2","3","4","a","b","c","d">> }

ResolveInputs ==
    { lead \o rest : lead \in Leads, rest \in Rests } \cup Examples \cup Blends \cup Quoted

NoParse == [input |-> <<>>, phase |-> "idle", outcome |-> Return(NoCommand)]

ParseInit == parse = NoParse

\* resolveCommand(input) has been called
ResolveInit ==
    \E input \in ResolveInputs :
        parse = [input |-> input, phase |-> "called", outcome |-> Return(NoCommand)]

\* the promise of resolveCommand settles
Resolve ==
    /\ parse.phase = "called"
    /\ parse' = [parse EXCEPT !.phase = "settled", !.outcome = resolveCommand(parse.input)]
    /\ UNCHANGED besidesParse

ResolveNext == Resolve

\* ------------------------------------------------------------------------
\* JSON data handed back by the connectors
\* ------------------------------------------------------------------------
\* kind: "undefined" (no data), "falsy" (null, 0, "", false), "scalar" (a
\* truthy value that is not an object) or "object".  Of an object the model
\* keeps the fields the orchestrator inspects: id and url ("undefined" when
\* absent, "" when present and empty), and memories: absent, not an array,
\* or an array whose items are "null", "noid" (an item without id) or the id
\* of the item.
Json(kind, id, memKind, memories, url) ==
    [kind |-> kind, id |-> id, memKind |-> memKind, memories |-> memories, url |-> url]

NoData == Json("undefined", "undefined", "absent", <<>>, "undefined")
Obj(id, memKind, memories, url) == Json("object", id, memKind, memories, url)

\* Bodies the memory service can answer with (response.json() is passed on
\* unchanged)
MemoryBodies ==
    { Json("falsy", "undefined", "absent", <<>>, "undefined"),
      Json("scalar", "undefined", "absent", <<>>, "undefined"),
      Obj("", "absent", <<>>, "undefined"),
      Obj("m1", "absent", <<>>, "u9"),
      Obj("undefined", "array", <<>>, "undefined"),
      Obj("undefined", "array", <<"a", "b">>, "undefined"),
      Obj("m2", "array", <<"b", "noid">>, "undefined"),
      Obj("m1", "array", <<"a", "null">>, "undefined"),
      Obj("undefined", "other", <<>>, "undefined") }

\* JavaScript truthiness of a string-or-undefined field
truthy(field) == field # "undefined" /\ field # ""

\* ------------------------------------------------------------------------
\* Connectors and the tool registry
\* ------------------------------------------------------------------------
memoryActions ==
    {"search", "create", "list", "get", "update", "delete", "stats",
     "list-topics", "create-topic"}

\* What MemoryConnector.makeRequest hands to fetch: the method, the path
\* under /api/v1 and the id that ends the path
Fetch(method, path, id) == [method |-> method, path |-> path, id |-> id]
NoFetch == Fetch("none", "", <<>>)

\* `/memory/${id}`: an id that is undefined is written out as "undefined"
inPath(id) == IF id = <<>> THEN <<"u","n","d","e","f","i","n","e","d">> ELSE id

\* the request the method of MemoryConnector that memoryConnector calls for
\* the action sends
makeRequest(action, args) ==
    CASE action = "search" -> Fetch("POST", "/memory/search", <<>>)
      [] action = "create" -> Fetch("POST", "/memory", <<>>)
      [] action = "list" -> Fetch("GET", "/memory", <<>>)
      [] action = "get" -> Fetch("GET", "/memory/", inPath(args.id))
      [] action = "update" -> Fetch("PUT", "/memory/", inPath(args.id))
      [] action = "delete" -> Fetch("DELETE", "/memory/", inPath(args.id))
      [] action = "stats" -> Fetch("GET", "/memory/admin/stats", <<>>)
      [] action = "list-topics" -> Fetch("GET", "/topics", <<>>)
      [] action = "create-topic" -> Fetch("POST", "/topics", <<>>)
      [] OTHER -> NoFetch

\* the request the handler of the command sends: the ui and stripe
\* connectors send none
handlerRequest(command) ==
    IF command.tool = "memory" THEN makeRequest(command.action, command.args) ELSE NoFetch

\* memoryConnector: every known action ends in makeRequest, which throws on
\* a failed fetch, on a non-2xx status and on a body that is not JSON, and
\* otherwise returns the body; an unknown action throws at once.
memoryConnector(action) ==
    IF action \in memoryActions
    THEN {Return(body) : body \in MemoryBodies} \cup {Throw("Memory API error", NoData)}
    ELSE {Throw("Unknown memory action", NoData)}

uiActions ==
    {"open-dashboard", "show-memory", "open-visualizer", "open-uploader",
     "show-stats", "show-topics", "open-settings", "show-help"}

uiPath(action) ==
    CASE action = "open-dashboard" -> "/dashboard"
      [] action = "show-memory" -> "/memory/"
      [] action = "open-visualizer" -> "/visualizer"
      [] action = "open-uploader" -> "/upload"
      [] action = "show-stats" -> "/stats"
      [] action = "show-topics" -> "/topics"
      [] action = "open-settings" -> "/settings"
      [] OTHER -> "/help"

\* uiConnector: {action: 'open_url', url, message}; new URL() throws when the
\* configured base URL is not a URL.
uiConnector(action) ==
    IF action \in uiActions
    THEN {Return(Obj("undefined", "absent", <<>>, uiPath(action))), Throw("Invalid URL", NoData)}
    ELSE {Throw("Unknown UI action", NoData)}

stripeConnector(action) ==
    IF action = "list-transactions"
    THEN {Return(Obj("undefined", "absent", <<>>, "undefined"))}
    ELSE {Throw("Unsupported action.", NoData)}

toolRegistry == {"stripe", "memory", "ui"}

\* The outcomes of toolRegistry[tool](action, args)
handlerOutcomes(tool, action) ==
    CASE tool = "stripe" -> stripeConnector(action)
      [] tool = "memory" -> memoryConnector(action)
      [] tool = "ui" -> uiConnector(action)

\* ------------------------------------------------------------------------
\* Orchestrator
\* ------------------------------------------------------------------------
OrchestratorResult(success, data, error, command, executionTime) ==
    [success |-> success, data |-> data, error |-> error, command |-> command,
     executionTime |-> executionTime]

\* the command of the catch block of orchestrate
unknownCommand(input) == ParsedCommand("unknown", "unknown", NoArgs, 0, input)

failure(message, input, startTime, endTime) ==
    OrchestratorResult(FALSE, NoData, message, unknownCommand(input), endTime - startTime)

Idle == [entry |-> "idle", inputs |-> <<>>, index |-> 0, command |-> NoCommand,
         request |-> NoFetch, startTime |-> 0, results |-> <<>>]

\* an entry point suspended on the handler it has called for the command
awaiting(entry, inputs, index, command, startTime, results) ==
    [entry |-> entry, inputs |-> inputs, index |-> index, command |-> command,
     request |-> handlerRequest(command), startTime |-> startTime, results |-> results]

Event(kind, index) == [kind |-> kind, index |-> index]

\* Inputs of the entry points
OrchInputs ==
    { <<"f","i","n","d"," ","d","o","c","s">>,
      <<"O","p","e","n"," ","d","a","s","h","b","o","a","r","d">>,
      <<"b","i","l","l","i","n","g">>,
      <<" ","h","i","?">>,
      <<"d","e","l","e","t","e"," ","i","t">> }

\* resolveCommand is a pure function of the input: its value on each input of
\* the model
resolved == [input \in OrchInputs |-> resolveCommand(input)]

\* orchestrate from the settling of resolveCommand, with parsed, up to its
\* await of the handler: either the catch block has produced the result
\* (done), or the handler has been called (command).
dispatch(parsed, input, time) ==
    IF parsed.threw
    THEN [done |-> TRUE, command |-> NoCommand,
          result |-> failure(parsed.error, input, time, time)]
    ELSE IF parsed.value.tool \notin toolRegistry
    THEN [done |-> TRUE, command |-> NoCommand,
          result |-> failure("Tool not found", input, time, time)]
    ELSE [done |-> FALSE, command |-> parsed.value,
          result |-> failure("undefined", input, time, time)]

\* orchestrate up to its await of the handler
orchestrateStart(input, time) == dispatch(resolved[input], input, time)

\* the catch block keeps the command that was resolved
settleKeeps(input, command, outcome, startTime, endTime) ==
    IF outcome.threw
    THEN OrchestratorResult(FALSE, NoData, outcome.error, command, endTime - startTime)
    ELSE OrchestratorResult(TRUE, outcome.value, "undefined", command, endTime - startTime)

\* orchestrate from the settling of the handler to its return
orchestrateSettle(input, command, outcome, startTime, endTime) ==
    IF outcome.threw
    THEN failure(outcome.error, input, startTime, endTime)
    ELSE OrchestratorResult(TRUE, outcome.value, "undefined", command, endTime - startTime)

\* ContextualOrchestrator: the session map and its post-processing
Str(s) == [type |-> "string", s |-> s, list |-> <<>>]
List(l) == [type |-> "array", s |-> "", list |-> l]

setContext(map, key, value) ==
    [k \in (DOMAIN map) \cup {key} |-> IF k = key THEN value ELSE map[k]]

EmptyMap == [k \in {} |-> Str("")]

\* the ids collected back to front
mapIdsReversed(memories) ==
    [i \in 1..Len(memories) |->
        IF memories[Len(memories) + 1 - i] = "noid" THEN "undefined"
        ELSE memories[Len(memories) + 1 - i]]

\* memories.map(m => m.id): reading id of null throws
mapIds(memories) ==
    [i \in 1..Len(memories) |-> IF memories[i] = "noid" THEN "undefined" ELSE memories[i]]
mapThrows(memories) == \E i \in 1..Len(memories) : memories[i] = "null"

\* storeContext with the recording of lastUIAction moved out of the guards
storeContextUnguarded(result, map) ==
    LET data == result.data
        inspected == result.success /\ data.kind \in {"scalar", "object"}
        isMemory == inspected /\ result.command.tool = "memory"
        isUI == inspected /\ result.command.tool = "ui"
        withId == IF isMemory /\ truthy(data.id)
                  THEN setContext(map, "lastMemoryId", Str(data.id)) ELSE map
        hasList == isMemory /\ data.memKind = "array" /\ Len(data.memories) > 0
        threw == hasList /\ mapThrows(data.memories)
        withList == IF hasList /\ ~threw
                    THEN setContext(withId, "lastSearchResults", List(mapIds(data.memories)))
                    ELSE withId
        withAction == setContext(withList, "lastUIAction", Str(result.command.action))
        withURL == IF isUI /\ truthy(data.url)
                   THEN setContext(withAction, "lastURL", Str(data.url)) ELSE withAction
    IN  [threw |-> threw, map |-> IF threw THEN withId ELSE withURL]

\* The statements after `await orchestrate(input)`: the map they leave and
\* whether they threw on the way.
storeContext(result, map) ==
    LET data == result.data
        inspected == result.success /\ data.kind \in {"scalar", "object"}
        isMemory == inspected /\ result.command.tool = "memory"
        isUI == inspected /\ result.command.tool = "ui"
        withId == IF isMemory /\ truthy(data.id)
                  THEN setContext(map, "lastMemoryId", Str(data.id)) ELSE map
        hasList == isMemory /\ data.memKind = "array" /\ Len(data.memories) > 0
        threw == hasList /\ mapThrows(data.memories)
        withList == IF hasList /\ ~threw
                    THEN setContext(withId, "lastSearchResults", List(mapIds(data.memories)))
                    ELSE withId
        withAction == IF isUI
                      THEN setContext(withList, "lastUIAction", Str(result.command.action))
                      ELSE withList
        withURL == IF isUI /\ truthy(data.url)
                   THEN setContext(withAction, "lastURL", Str(data.url)) ELSE withAction
    IN  [threw |-> threw, map |-> IF threw THEN withId ELSE withURL]

\* What a completed call hands to its caller
\* What a completed call hands to its caller: a list of results, or an
\* exception (threw).  serial is the parity of the number of calls completed
\* so far; it tells the completion of a call from every other step.
Delivered(entry, inputs, threw, results) ==
    [entry |-> entry, inputs |-> inputs, threw |-> threw, results |-> results,
     serial |-> 1 - delivered.serial]

Nothing == [entry |-> "none", inputs |-> <<>>, threw |-> FALSE, results |-> <<>>,
            serial |-> delivered.serial]

\* results.unshift(result) in the place of push
pushFront(results, result) == <<result>> \o results

\* results.push(result)
push(results, result) == Append(results, result)

\* The loop of orchestrateBatch from input i on, up to the next await of a
\* handler or to the return.
RECURSIVE batchLoop(_, _, _, _, _)
batchLoop(inputs, i, results, log, time) ==
    IF i > Len(inputs)
    THEN [done |-> TRUE, index |-> i, command |-> NoCommand, results |-> results, log |-> log]
    ELSE LET started == orchestrateStart(inputs[i], time)
         IN  IF started.done
             THEN batchLoop(inputs, i + 1, push(results, started.result),
                            log \o <<Event("resolve", i), Event("settle", i)>>, time)
             ELSE [done |-> FALSE, index |-> i, command |-> started.command,
                   results |-> results,
                   log |-> log \o <<Event("resolve", i), Event("dispatch", i)>>]


BatchInputs ==
    UNION { [1..n -> OrchInputs] : n \in 0..MaxBatch }

ContextKeys == {"lastMemoryId", "topic"}
ContextValues == {Str("m7")}

OrchInit ==
    /\ now = 0
    /\ orch = Idle
    /\ delivered = [entry |-> "none", inputs |-> <<>>, threw |-> FALSE,
                    results |-> <<>>, serial |-> 0]
    /\ context = EmptyMap
    /\ events = <<>>

\* orchestrate(input) and ContextualOrchestrator.orchestrate(input), up to
\* the await of the handler
Begin(entry, input) ==
    /\ LET started == orchestrateStart(input, now)
           stored == storeContext(started.result, context)
       IN  IF started.done
           THEN /\ orch' = Idle
                /\ events' = <<Event("resolve", 1), Event("settle", 1)>>
                /\ IF entry = "contextual"
                   THEN /\ context' = stored.map
                        /\ delivered' = Delivered(entry, <<input>>, stored.threw,
                                            IF stored.threw THEN <<>> ELSE <<started.result>>)
                   ELSE /\ context' = context
                        /\ delivered' = Delivered(entry, <<input>>, FALSE, <<started.result>>)
           ELSE /\ orch' = awaiting(entry, <<input>>, 1, started.command, now, <<>>)
                /\ events' = <<Event("resolve", 1), Event("dispatch", 1)>>
                /\ delivered' = Nothing
                /\ context' = context
    /\ now' = now

Orchestrate ==
    /\ orch.entry = "idle"
    /\ \E input \in OrchInputs : Begin("orchestrate", input)
    /\ UNCHANGED besidesOrch

ContextualOrchestrate ==
    /\ orch.entry = "idle"
    /\ \E input \in OrchInputs : Begin("contextual", input)
    /\ UNCHANGED besidesOrch

OrchestrateBatch ==
    /\ orch.entry = "idle"
    /\ \E inputs \in BatchInputs :
         LET loop == batchLoop(inputs, 1, <<>>, <<>>, now)
         IN  /\ events' = loop.log
             /\ IF loop.done
                THEN /\ orch' = Idle
                     /\ delivered' = Delivered("batch", inputs, FALSE, loop.results)
                ELSE /\ orch' = awaiting("batch", inputs, loop.index, loop.command, now,
                                          loop.results)
                     /\ delivered' = Nothing
    /\ UNCHANGED <<now, context>>
    /\ UNCHANGED besidesOrch

\* The handler settles: the awaiting orchestrate builds its result, and the
\* entry point that called it runs on to its next await or to its return.
HandlerSettles ==
    /\ orch.entry # "idle"
    /\ UNCHANGED besidesOrch
    /\ \E d \in 0..MaxDelay :
       \E outcome \in handlerOutcomes(orch.command.tool, orch.command.action) :
         LET input == orch.inputs[orch.index]
             result == orchestrateSettle(input, orch.command, outcome,
                                         orch.startTime, now + d)
             settled == events \o <<Event("settle", orch.index)>>
             stored == storeContext(result, context)
             loop == batchLoop(orch.inputs, orch.index + 1,
                               push(orch.results, result), settled, now + d)
         IN  /\ now + d <= MaxTime
             /\ now' = now + d
             /\ CASE orch.entry = "orchestrate" ->
                       /\ orch' = Idle
                       /\ events' = settled
                       /\ context' = context
                       /\ delivered' = Delivered("orchestrate", orch.inputs, FALSE, <<result>>)
                  [] orch.entry = "contextual" ->
                       /\ orch' = Idle
                       /\ events' = settled
                       /\ context' = stored.map
                       /\ delivered' = Delivered("contextual", orch.inputs, stored.threw,
                                           IF stored.threw THEN <<>> ELSE <<result>>)
                  [] orch.entry = "batch" ->
                       /\ events' = loop.log
                       /\ context' = context
                       /\ IF loop.done
                          THEN /\ orch' = Idle
                               /\ delivered' = Delivered("batch", orch.inputs, FALSE,
                                                         loop.results)
                          ELSE /\ orch' = awaiting(orch.entry, orch.inputs, loop.index,
                                                   loop.command, now + d, loop.results)
                               /\ delivered' = Nothing

SetContext ==
    /\ \E key \in ContextKeys : \E value \in ContextValues :
         context' = setContext(context, key, value)
    /\ UNCHANGED <<now, orch, delivered, events>>
    /\ UNCHANGED besidesOrch

ClearContext ==
    /\ context # EmptyMap
    /\ context' = EmptyMap
    /\ UNCHANGED <<now, orch, delivered, events>>
    /\ UNCHANGED besidesOrch

\* The stateless entry points
OrchNext ==
    \/ Orchestrate
    \/ OrchestrateBatch
    \/ HandlerSettles

\* The ContextualOrchestrator and its session map
ContextNext ==
    \/ ContextualOrchestrate
    \/ HandlerSettles
    \/ SetContext
    \/ ClearContext

\* ------------------------------------------------------------------------
\* Numbers of the running statistics
\* ------------------------------------------------------------------------
\* A number is a fraction n/d in lowest terms with d >= 0; d = 0 holds the
\* values a division by zero yields: 1/0 and -1/0 are Infinity and
\* -Infinity, 0/0 is NaN.
RECURSIVE gcd(_, _)
gcd(a, b) == IF b = 0 THEN a ELSE gcd(b, a % b)

abs(k) == IF k < 0 THEN -k ELSE k
sign(k) == IF k < 0 THEN -1 ELSE IF k > 0 THEN 1 ELSE 0

Frac(n, d) ==
    IF d = 0 THEN [n |-> sign(n), d |-> 0]
    ELSE LET g == gcd(abs(n), d) IN [n |-> n \div g, d |-> d \div g]

Zero == Frac(0, 1)
times(x, k) == Frac(x.n * k, x.d)
over(x, k) == Frac(x.n * sign(IF k = 0 THEN 1 ELSE k), x.d * abs(k))
plus(x, k) == Frac(x.n + k * x.d, x.d)

\* ------------------------------------------------------------------------
\* BaseAgent
\* ------------------------------------------------------------------------
MaxCalls == 2          \* execute calls per behaviour
ShortTimeout == 2      \* a configured timeout within reach of the clock

DefaultTimeout == 30000

\* AgentResponse; error is the message as its list of words, <<>> when
\* absent, and processing_time is -1 when absent
AgentResponse(success, data, error, processing_time) ==
    [success |-> success, data |-> data, error |-> error,
     processing_time |-> processing_time]

freshStats ==
    [requests_processed |-> 0, success_rate |-> Zero,
     average_response_time |-> Zero, last_executed |-> -1]

updateStats(current, success, responseTime, time) ==
    LET totalRequests == current.requests_processed
        previousSuccesses == times(over(current.success_rate, 100), totalRequests - 1)
        currentSuccesses == IF success THEN plus(previousSuccesses, 1) ELSE previousSuccesses
        previousTotal == times(current.average_response_time, totalRequests - 1)
    IN  [current EXCEPT
            !.last_executed = time,
            !.success_rate = times(over(currentSuccesses, totalRequests), 100),
            !.average_response_time = over(plus(previousTotal, responseTime), totalRequests)]

\* this.config.timeout || 30000
timeoutOf(cfg) == IF cfg.timeout = 0 THEN DefaultTimeout ELSE cfg.timeout

\* `Agent ${this.config.name} timeout`
timeoutMessage(cfg) == <<"Agent", cfg.name, "timeout">>

\* no timer at all: the race is left to process() alone
noTimer(startTime, timeout) == [state |-> "none", deadline |-> 0]

\* setTimeout(() => reject(...), timeout)
armTimer(startTime, timeout) == [state |-> "armed", deadline |-> startTime + timeout]

\* the response of the try block without the annotation
annotateNot(response, processingTime) == response

\* {...response, processing_time: processingTime}
annotate(response, processingTime) ==
    [response EXCEPT !.processing_time = processingTime]

\* the response of the catch block
caught(message, processingTime) ==
    AgentResponse(FALSE, NoData, message, processingTime)

\* execute up to `await Promise.race(...)`: the call record of a call that
\* starts at startTime; proc is the state process() is suspended in.
startCall(request, startTime, proc) ==
    [ request |-> request,
      state |-> "pending",
      startTime |-> startTime,
      timer |-> armTimer(startTime, timeoutOf(config)),
      process |-> "running",
      wonBy |-> "none",
      alone |-> \A c \in 1..Len(calls) : calls[c].state = "returned",
      settled |-> Return(AgentResponse(FALSE, NoData, <<>>, -1)),
      response |-> AgentResponse(FALSE, NoData, <<>>, -1),
      proc |-> proc ]

\* execute from the settling of the race to its return, for a call that is
\* still awaiting the race: outcome is what the winning promise settled
\* with.  Gives the call record and the statistics.
finish(call, current, outcome, wonBy, time) ==
    LET processingTime == time - call.startTime
    IN  [ call |-> [call EXCEPT
                      !.state = "returned",
                      !.wonBy = wonBy,
                      !.response = IF outcome.threw
                                   THEN caught(outcome.error, processingTime)
                                   ELSE annotate(outcome.value, processingTime)],
          stats |-> updateStats(current, ~outcome.threw, processingTime, time) ]

\* process() of call c settles at the given time; if the race is still open
\* it wins it.
processSettles(c, outcome, time, proc) ==
    LET call == [calls[c] EXCEPT
                    !.process = IF outcome.threw THEN "rejected" ELSE "resolved",
                    !.settled = outcome,
                    !.proc = proc]
        done == finish(call, stats, outcome,
                       IF outcome.threw THEN "reject" ELSE "resolve", time)
    IN  IF calls[c].state = "pending"
        THEN /\ calls' = [calls EXCEPT ![c] = done.call]
             /\ stats' = done.stats
        ELSE /\ calls' = [calls EXCEPT ![c] = call]
             /\ stats' = stats

AgentNames == {"EchoAgent"}
AgentTimeouts == {0, ShortTimeout}

AgentInit ==
    /\ config \in [name : AgentNames, timeout : AgentTimeouts]
    /\ stats = freshStats
    /\ calls = <<>>
    /\ wasReset = FALSE

\* the agent of the specifications that make no agent call
AgentUnused ==
    /\ config = [name |-> "EchoAgent", timeout |-> 0]
    /\ stats = freshStats
    /\ calls = <<>>
    /\ wasReset = FALSE

\* What the domain operation of the abstract agent may answer with
DomainResponses ==
    { AgentResponse(TRUE, Obj("m1", "absent", <<>>, "undefined"), <<>>, -1),
      AgentResponse(FALSE, NoData, <<"domain", "failure">>, -1) }
DomainErrors == { <<"boom">> }

\* the clock may advance by d: beyond MaxTime it only moves with the timers
passes(d) == d = 0 \/ now + d <= MaxTime

\* execute(request), up to the await of the race
Execute ==
    /\ Len(calls) < MaxCalls
    /\ calls' = Append(calls, startCall("request", now, "running"))
    /\ stats' = [stats EXCEPT !.requests_processed = @ + 1]
    /\ UNCHANGED <<now, config, wasReset>>
    /\ UNCHANGED besidesAgent

ProcessResolves ==
    \E c \in 1..Len(calls) : \E d \in 0..MaxDelay : \E response \in DomainResponses :
        /\ calls[c].process = "running"
        /\ passes(d)
        /\ now' = now + d
        /\ processSettles(c, Return(response), now + d, "done")
        /\ UNCHANGED <<config, wasReset>>
        /\ UNCHANGED besidesAgent

ProcessRejects ==
    \E c \in 1..Len(calls) : \E d \in 0..MaxDelay : \E message \in DomainErrors :
        /\ calls[c].process = "running"
        /\ passes(d)
        /\ now' = now + d
        /\ processSettles(c, Throw(message, AgentResponse(FALSE, NoData, <<>>, -1)),
                          now + d, "done")
        /\ UNCHANGED <<config, wasReset>>
        /\ UNCHANGED besidesAgent

\* The timer of call c fires, not before its deadline: the timeout promise
\* rejects, and wins the race if the race is still open.
TimerFires ==
    \E c \in 1..Len(calls) :
        LET time == IF now < calls[c].timer.deadline THEN calls[c].timer.deadline ELSE now
            call == [calls[c] EXCEPT !.timer.state = "fired"]
            done == finish(call, stats,
                           Throw(timeoutMessage(config), AgentResponse(FALSE, NoData, <<>>, -1)),
                           "timer", time)
        IN  /\ calls[c].timer.state = "armed"
            /\ now' = time
            /\ IF calls[c].state = "pending"
               THEN /\ calls' = [calls EXCEPT ![c] = done.call]
                    /\ stats' = done.stats
               ELSE /\ calls' = [calls EXCEPT ![c] = call]
                    /\ stats' = stats
            /\ UNCHANGED <<config, wasReset>>
            /\ UNCHANGED besidesAgent

ResetStats ==
    /\ stats # freshStats
    /\ stats' = freshStats
    /\ wasReset' = TRUE
    /\ UNCHANGED <<now, config, calls>>
    /\ UNCHANGED besidesAgent

AgentNext ==
    \/ Execute
    \/ ProcessResolves
    \/ ProcessRejects
    \/ TimerFires
    \/ ResetStats

\* ------------------------------------------------------------------------
\* EmbeddingAgent
\* ------------------------------------------------------------------------
MaxEmbeds == 3         \* generate calls of the EmbeddingAgent per behaviour
MaxBatches == 2        \* batch calls of the EmbeddingAgent per behaviour

embeddingModel == "text-embedding-3-small"

\* String.prototype.charCodeAt, for letters and the space
charCodeAt(c) ==
    IF \E k \in 1..26 : UPPER[k] = c THEN 64 + (CHOOSE k \in 1..26 : UPPER[k] = c)
    ELSE IF \E k \in 1..26 : LOWER[k] = c THEN 96 + (CHOOSE k \in 1..26 : LOWER[k] = c)
    ELSE 32

\* A 32-bit integer is handled by its two 16-bit halves
lowHalf(h) == h % 65536
highHalf(h) == (h \div 65536) % 65536
int32(hi, lo) == (IF hi >= 32768 THEN hi - 65536 ELSE hi) * 65536 + lo

\* hash << 5
shiftLeft5(h) ==
    LET lo == lowHalf(h) * 32
    IN  int32((highHalf(h) * 32 + lo \div 65536) % 65536, lo % 65536)

\* hash = ((hash << 5) - hash) + char; hash = hash & hash
hashStep(h, char) ==
    LET s == shiftLeft5(h)
        lo == lowHalf(s) - lowHalf(h) + char
        hi == highHalf(s) - highHalf(h) + lo \div 65536
    IN  int32(hi % 65536, lo % 65536)

RECURSIVE hashFrom(_, _)
hashFrom(hash, text) ==
    IF text = <<>> THEN hash
    ELSE hashFrom(hashStep(hash, charCodeAt(Head(text))), Tail(text))

\* `${this.embeddingModel}_${hash}`
getCacheKey(text) == <<embeddingModel, hashFrom(0, text)>>

\* An embedding: a vector, or undefined
Vec(values) == [defined |-> TRUE, values |-> values]
NoVector == [defined |-> FALSE, values |-> <<>>]
Vectors == { Vec(<<1, 0>>), Vec(<<0, 1>>) }

\* embedding.length, embedding?.length || 0
length(embedding) == Len(embedding.values)

\* Map<string, number[]>
EmptyCache == [k \in {} |-> NoVector]
cacheSet(map, key, embedding) ==
    [k \in (DOMAIN map) \cup {key} |-> IF k = key THEN embedding ELSE map[k]]

\* a cache that never finds anything
cacheHasNot(map, key) == FALSE

\* this.cache.has(cacheKey)
cacheHas(map, key) == key \in DOMAIN map

\* The body of an outbound call: input is one text or a list of texts
SingleInput(text) == [model |-> embeddingModel, single |-> TRUE, input |-> <<text>>]
ListInput(texts) == [model |-> embeddingModel, single |-> FALSE, input |-> texts]

\* The data of the responses
GenerateData(embedding, text, cached, dimensions, model) ==
    [embedding |-> embedding, text |-> text, cached |-> cached,
     dimensions |-> dimensions, model |-> model]
BatchData(embeddings, total_count, cached_count, model) ==
    [embeddings |-> embeddings, total_count |-> total_count,
     cached_count |-> cached_count, model |-> model]

embedFailure(message) == AgentResponse(FALSE, NoData, message, -1)
embedSuccess(data) == AgentResponse(TRUE, data, <<>>, -1)

\* An entry of the results array of a batch, and an index never assigned
Entry(text, embedding, cached) ==
    [hole |-> FALSE, text |-> text, embedding |-> embedding, cached |-> cached]
Hole == [hole |-> TRUE, text |-> <<>>, embedding |-> NoVector, cached |-> FALSE]

\* results[index] = entry, positions counted from 1
setAt(results, index, entry) ==
    [k \in 1..(IF index > Len(results) THEN index ELSE Len(results)) |->
        IF k = index THEN entry
        ELSE IF k <= Len(results) THEN results[k] ELSE Hole]

\* results.filter(r => r.cached).length
RECURSIVE cachedCount(_)
cachedCount(results) ==
    IF results = <<>> THEN 0
    ELSE (IF ~Head(results).hole /\ Head(results).cached THEN 1 ELSE 0)
         + cachedCount(Tail(results))

\* What fetch and response.json() may give for a call with n inputs: the
\* fetch rejects, the status is not ok, the body has no data array, or it
\* has one with these items (the embedding of an item may be missing).
Answers(n) ==
    { [i \in 1..n |-> v] : v \in Vectors \cup {NoVector} }
    \cup { [i \in 1..n |-> IF i % 2 = 1 THEN Vec(<<1, 0>>) ELSE Vec(<<0, 1>>)],
           [i \in 1..(n - 1) |-> Vec(<<1, 0>>)],
           [i \in 1..(n + 1) |-> Vec(<<0, 1>>)] }

Fetched(kind, status, hasData, items) ==
    [kind |-> kind, status |-> status, hasData |-> hasData, items |-> items]

FetchFailures ==
    { Fetched("rejected", "none", FALSE, <<>>),
      Fetched("status", "500", FALSE, <<>>) }

FetchAnswers(n) ==
    { Fetched("ok", "200", FALSE, <<>>) }
    \cup { Fetched("ok", "200", TRUE, items) : items \in Answers(n) }

\* The message of the error that the code after the fetch throws
fetchError(outcome) ==
    CASE outcome.kind = "rejected" -> <<"fetch failed">>
      [] outcome.kind = "status" -> <<"OpenAI API error: ", outcome.status>>
      [] OTHER -> <<"TypeError">>

\* Where an operation of the agent stands after its synchronous part: it
\* has settled with a response, or it is suspended on the fetch it sent
Settled(response) ==
    [phase |-> "done", response |-> response, sent |-> <<>>,
     uncachedTexts |-> <<>>, uncachedIndices |-> <<>>, results |-> <<>>]
Suspended(sent, uncachedTexts, uncachedIndices, results) ==
    [phase |-> "fetching", response |-> embedFailure(<<>>), sent |-> sent,
     uncachedTexts |-> uncachedTexts, uncachedIndices |-> uncachedIndices,
     results |-> results]

\* generateEmbedding(text), up to the await of the fetch
generateEmbedding(text, map) ==
    LET cacheKey == getCacheKey(text)
    IN  IF trim(text) = <<>>
        THEN Settled(embedFailure(<<"Text is required for embedding generation">>))
        ELSE IF cacheHas(map, cacheKey)
        THEN Settled(embedSuccess(GenerateData(map[cacheKey], text, TRUE,
                                               length(map[cacheKey]), "undefined")))
        ELSE Suspended(<<SingleInput(text)>>, <<text>>, <<1>>, <<>>)

\* generateEmbedding from the settling of the fetch on: the cache it leaves
\* and its response.  cache.set comes before embedding.length is read.
generateEmbeddingResumes(text, map, outcome) ==
    LET cacheKey == getCacheKey(text)
        failed(message) == embedFailure(<<"Failed to generate embedding: ">> \o message)
    IN  IF outcome.kind # "ok" \/ ~outcome.hasData \/ outcome.items = <<>>
        THEN [cache |-> map, response |-> failed(fetchError(outcome))]
        ELSE LET embedding == outcome.items[1]
             IN  [cache |-> cacheSet(map, cacheKey, embedding),
                  response |-> IF embedding.defined
                               THEN embedSuccess(GenerateData(embedding, text, FALSE,
                                                 length(embedding), embeddingModel))
                               ELSE failed(<<"TypeError">>)]

\* texts.forEach((text, index) => ...) of batchEmbedding, from index on
RECURSIVE partition(_, _, _, _)
partition(texts, map, index, acc) ==
    IF index > Len(texts) THEN acc
    ELSE LET text == texts[index]
             cacheKey == getCacheKey(text)
         IN  partition(texts, map, index + 1,
                IF cacheHas(map, cacheKey)
                THEN IF map[cacheKey].defined
                     THEN [acc EXCEPT !.results =
                                setAt(@, index, Entry(text, map[cacheKey], TRUE))]
                     ELSE acc
                ELSE [acc EXCEPT !.uncachedTexts = Append(@, text),
                                 !.uncachedIndices = Append(@, index)])

batchSummary(results) ==
    embedSuccess(BatchData(results, Len(results), cachedCount(results), embeddingModel))

\* one call for each uncached text
callPerText(uncachedTexts) ==
    [i \in 1..Len(uncachedTexts) |-> SingleInput(uncachedTexts[i])]

\* the fetch of batchEmbedding: input: uncachedTexts
combinedCall(uncachedTexts) == <<ListInput(uncachedTexts)>>

\* batchEmbedding(texts), up to the await of the fetch
batchEmbedding(texts, map) ==
    IF ~texts.isArray \/ Len(texts.items) = 0
    THEN Settled(embedFailure(<<"Array of texts is required for batch embedding">>))
    ELSE LET parts == partition(texts.items, map, 1,
                        [results |-> <<>>, uncachedTexts |-> <<>>, uncachedIndices |-> <<>>])
         IN  IF Len(parts.uncachedTexts) > 0
             THEN Suspended(combinedCall(parts.uncachedTexts), parts.uncachedTexts,
                            parts.uncachedIndices, parts.results)
             ELSE [Settled(batchSummary(parts.results)) EXCEPT !.results = parts.results]

\* data.data.forEach((item, i) => ...) of batchEmbedding, from i on
RECURSIVE merge(_, _, _, _)
merge(items, call, i, acc) ==
    IF i > Len(items) THEN acc
    ELSE merge(items, call, i + 1,
            IF i <= Len(call.uncachedTexts) /\ call.uncachedTexts[i] # <<>>
            THEN [cache |-> cacheSet(acc.cache, getCacheKey(call.uncachedTexts[i]), items[i]),
                  results |-> setAt(acc.results, call.uncachedIndices[i],
                                    Entry(call.uncachedTexts[i], items[i], FALSE))]
            ELSE acc)

\* batchEmbedding from the settling of the fetch on
batchEmbeddingResumes(call, map, outcome) ==
    IF outcome.kind # "ok" \/ ~outcome.hasData
    THEN [cache |-> map,
          response |-> embedFailure(<<"Batch embedding failed: ">> \o fetchError(outcome))]
    ELSE LET merged == merge(outcome.items, call, 1,
                             [cache |-> map, results |-> call.results])
         IN  [cache |-> merged.cache, response |-> batchSummary(merged.results)]

\* AgentRequest: input, parameters.operation, parameters.text ("" when
\* absent) and parameters.texts
NoTexts == [isArray |-> FALSE, items |-> <<>>]
Texts(items) == [isArray |-> TRUE, items |-> items]
EmbedRequest(input, operation, text, texts) ==
    [input |-> input, operation |-> operation, text |-> text, texts |-> texts]

EMBED == <<"e","m","b","e","d">>
SIMILAR == <<"s","i","m","i","l","a","r">>

\* the operation process(request) hands the request to, with its text
operationOf(request) ==
    IF request.operation = "generate_embedding" \/ includes(request.input, EMBED)
    THEN [op |-> "generate",
          text |-> IF request.text # <<>> THEN request.text ELSE request.input]
    ELSE IF request.operation = "calculate_similarity" \/ includes(request.input, SIMILAR)
    THEN [op |-> "similarity", text |-> <<>>]
    ELSE IF request.operation = "batch_embed" THEN [op |-> "batch", text |-> <<>>]
    ELSE IF request.operation = "find_similar" THEN [op |-> "find_similar", text |-> <<>>]
    ELSE [op |-> "generate", text |-> request.input]

\* the cache keys a suspended call writes when its fetch answers
keysWritten(call) ==
    { getCacheKey(call.uncachedTexts[i]) :
        i \in { k \in 1..Len(call.uncachedTexts) : call.uncachedTexts[k] # <<>> } }

\* the cache keys a call looks up
keysRead(call) ==
    IF call.op = "batch"
    THEN { getCacheKey(call.request.texts.items[i]) : i \in 1..Len(call.request.texts.items) }
    ELSE { getCacheKey(call.text) }

\* a call other than this one (the c-th) that missed the cache for a key of
\* this call is in flight
raced(call, c, others) ==
    \E k \in 1..Len(others) :
        /\ k # c
        /\ others[k].phase = "fetching"
        /\ keysWritten(others[k]) \cap keysRead(call) # {}

\* process(request) up to its first await: the record of the call, begun
\* with the given cache while the calls of others have been made
embedCall(request, map, others) ==
    LET routed == operationOf(request)
        started == IF routed.op = "batch" THEN batchEmbedding(request.texts, map)
                   ELSE generateEmbedding(routed.text, map)
        call == [ request |-> request, op |-> routed.op, text |-> routed.text,
                  phase |-> started.phase, sent |-> started.sent,
                  uncachedTexts |-> started.uncachedTexts,
                  uncachedIndices |-> started.uncachedIndices,
                  results |-> started.results,
                  response |-> started.response,
                  cacheBefore |-> map,
                  after |-> { i \in 1..Len(others) :
                                others[i].phase = "done" /\ ~others[i].cleared },
                  cleared |-> FALSE, racing |-> FALSE,
                  fetched |-> Fetched("none", "none", FALSE, <<>>) ]
    IN  [call EXCEPT !.racing = started.phase = "done" /\ raced(call, 0, others)]

\* process(request) of a suspended call from the settling of its fetch on
embedResumes(call, map, outcome) ==
    IF call.op = "batch" THEN batchEmbeddingResumes(call, map, outcome)
    ELSE generateEmbeddingResumes(call.text, map, outcome)

GenerateRequests ==
    { EmbedRequest(<<"B","B">>, "generate_embedding", <<"A","a">>, NoTexts),
      EmbedRequest(<<"B","B">>, "generate_embedding", <<" ">>, NoTexts),
      EmbedRequest(<<"B","B">>, "none", <<>>, NoTexts) }

BatchLists ==
    { <<>>, << <<"A","a">> >>, << <<"c">>, <<"A","a">> >>, << <<"A","a">>, <<"c">> >>,
      << <<"A","a">>, <<"B","B">> >>, << <<>>, <<"c">> >>, << <<"c">>, <<>> >> }

BatchRequests ==
    { EmbedRequest(<<"B","B">>, "batch_embed", <<>>, Texts(items)) : items \in BatchLists }

EmbedInit ==
    /\ cache = EmptyCache
    /\ embeds = <<>>

Generate ==
    \E request \in GenerateRequests :
        /\ Len(embeds) < MaxEmbeds
        /\ embeds' = Append(embeds, embedCall(request, cache, embeds))
        /\ UNCHANGED cache
        /\ UNCHANGED besidesEmbed

BatchEmbed ==
    \E request \in BatchRequests :
        /\ Len(embeds) < MaxBatches
        /\ embeds' = Append(embeds, embedCall(request, cache, embeds))
        /\ UNCHANGED cache
        /\ UNCHANGED besidesEmbed

\* the fetch of call c settles with outcome
fetchSettles(c, outcome) ==
    LET resumed == embedResumes(embeds[c], cache, outcome)
    IN  /\ embeds[c].phase = "fetching"
        /\ cache' = resumed.cache
        /\ embeds' = [embeds EXCEPT ![c] =
                        [@ EXCEPT !.phase = "done",
                                  !.response = resumed.response,
                                  !.fetched = outcome,
                                  !.racing = raced(embeds[c], c, embeds)]]

EmbeddingAnswers ==
    \E c \in 1..Len(embeds) :
        \E outcome \in FetchAnswers(Len(embeds[c].uncachedTexts)) :
            /\ fetchSettles(c, outcome)
            /\ UNCHANGED besidesEmbed

EmbeddingFails ==
    \E c \in 1..Len(embeds) : \E outcome \in FetchFailures :
        /\ fetchSettles(c, outcome)
        /\ UNCHANGED besidesEmbed

\* clearCache()
ClearCache ==
    /\ cache # EmptyCache
    /\ cache' = EmptyCache
    /\ embeds' = [c \in 1..Len(embeds) |->
                    [embeds[c] EXCEPT !.cleared = @ \/ embeds[c].phase = "done"]]
    /\ UNCHANGED besidesEmbed

GenerateNext ==
    \/ Generate
    \/ EmbeddingAnswers
    \/ EmbeddingFails
    \/ ClearCache

BatchNext ==
    \/ BatchEmbed
    \/ EmbeddingAnswers
    \/ EmbeddingFails
    \/ ClearCache

\* ------------------------------------------------------------------------
\* ExecutionAgent
\* ------------------------------------------------------------------------
\* MemoryOperation: type and payload.id ("undefined" when the payload has
\* none); the other fields of the payload only fill the body of the request
Operation(type, id) == [type |-> type, payload |-> [id |-> id]]

\* a payload always counts as having an id
anyId(payload) == FALSE

\* !payload.id
noId(payload) == payload.id \in {"undefined", ""}

HttpRequest(method, endpoint) == [method |-> method, endpoint |-> endpoint]
NoRequest == HttpRequest("none", <<>>)

\* The headers of a request: Content-Type and X-User-ID, "undefined" when
\* the header is not there
Headers(contentType, userId) == [contentType |-> contentType, userId |-> userId]
NoHeaders == Headers("undefined", "undefined")

\* this.defaultHeaders
defaultHeaders == Headers("application/json", "undefined")

\* {...headers, ...more}
spread(headers, more) ==
    Headers(IF more.contentType # "undefined" THEN more.contentType ELSE headers.contentType,
            IF more.userId # "undefined" THEN more.userId ELSE headers.userId)

\* ...(context.user_id && {'X-User-ID': context.user_id})
identity(user_id) ==
    IF user_id \in {"undefined", ""} THEN NoHeaders ELSE Headers("undefined", user_id)

\* the headers executeMemoryOperation sends
memoryHeaders(user_id) == spread(defaultHeaders, identity(user_id))

\* the headers executeAPICall sends
apiHeaders(apiCall, user_id) ==
    spread(spread(defaultHeaders, apiCall.headers), identity(user_id))

\* request.headers || this.defaultHeaders of makeAPIRequest, for
\* performHealthCheck, which passes no headers
healthHeaders == defaultHeaders

\* the switch of executeMemoryOperation: the request it builds, or the
\* error it throws
memoryRequest(operation) ==
    CASE operation.type = "create" -> Return(HttpRequest("POST", <<"/api/v1/memory">>))
      [] operation.type = "search" -> Return(HttpRequest("POST", <<"/api/v1/memory/search">>))
      [] operation.type = "update" ->
            IF noId(operation.payload)
            THEN Throw(<<"Memory ID required", " for update operation">>, NoRequest)
            ELSE Return(HttpRequest("PUT", <<"/api/v1/memory/", operation.payload.id>>))
      [] operation.type = "delete" ->
            IF noId(operation.payload)
            THEN Throw(<<"Memory ID required", " for delete operation">>, NoRequest)
            ELSE Return(HttpRequest("DELETE", <<"/api/v1/memory/", operation.payload.id>>))
      [] operation.type = "list" -> Return(HttpRequest("GET", <<"/api/v1/memory">>))
      [] OTHER -> Throw(<<"Unsupported memory operation: ", operation.type>>, NoRequest)

\* A body as response.json() gives it: null, or an object with or without
\* an error field
Body(kind, error) == [kind |-> kind, error |-> error]
NoBody == Body("undefined", "undefined")
Bodies == { Body("null", "undefined"), Body("object", "undefined"),
            Body("object", "not found") }

\* The result of makeAPIRequest
ApiResult(success, data, error) == [success |-> success, data |-> data, error |-> error]

\* makeAPIRequest after response.json(): data?.error || `HTTP ...`
apiResult(ok, status, data) ==
    IF ~ok
    THEN ApiResult(FALSE, NoBody,
                   IF data.error \notin {"undefined", ""} THEN <<data.error>>
                   ELSE <<"HTTP ", status>>)
    ELSE ApiResult(TRUE, data, <<>>)

\* the catch block of makeAPIRequest
apiError(name) ==
    IF name = "AbortError" THEN ApiResult(FALSE, NoBody, <<"Request timeout">>)
    ELSE ApiResult(FALSE, NoBody, <<"fetch failed">>)

\* The response of executeMemoryOperation: that of its request, or that of
\* its catch block
operationResult(operation, request, result) ==
    [success |-> result.success, data |-> result.data, error |-> result.error,
     metadata |-> [operation |-> operation.type, request |-> request]]
operationFailed(operation, message) ==
    [success |-> FALSE, data |-> NoBody,
     error |-> <<"Memory operation failed: ">> \o message,
     metadata |-> [operation |-> operation.type, request |-> NoRequest]]

\* the loop of executeBatchOperations gives up at the first failure
failFast(index, operations, result) ==
    IF result.success THEN index + 1 ELSE Len(operations) + 1

\* for (const operation of operations): the operation that follows
afterOperation(index, operations, result) == index + 1

\* results.push({operation, result}) and the two counters
recorded(call, result) ==
    [call EXCEPT
        !.results = Append(@, [operation |-> call.operations[call.index], result |-> result]),
        !.successCount = IF result.success THEN @ + 1 ELSE @,
        !.errorCount = IF result.success THEN @ ELSE @ + 1,
        !.index = afterOperation(@, call.operations, result),
        !.http = [@ EXCEPT !.phase = "idle", !.request = NoRequest,
                           !.ok = FALSE, !.status = "none"]]

\* the response of executeBatchOperations
batchResponse(call) ==
    AgentResponse(call.errorCount = 0,
                  [results |-> call.results,
                   summary |-> [total |-> Len(call.operations),
                                success |-> call.successCount,
                                errors |-> call.errorCount,
                                success_rate |-> Frac(call.successCount * 100,
                                                      Len(call.operations))]],
                  <<>>, -1)

\* the response of process for a request handled as one memory operation
memoryResponse(call) ==
    LET result == call.results[1].result
    IN  AgentResponse(result.success, result.data, result.error, -1)

\* The call runs on from the operation at its index until it awaits a
\* fetch or returns
RECURSIVE runOn(_)
runOn(call) ==
    IF call.index > Len(call.operations)
    THEN [call EXCEPT !.phase = "done",
                      !.response = IF call.mode = "batch" THEN batchResponse(call)
                                   ELSE memoryResponse(call)]
    ELSE LET operation == call.operations[call.index]
             built == memoryRequest(operation)
             attempted == [call EXCEPT !.attempts = Append(@, call.index)]
         IN  IF built.threw
             THEN runOn(recorded(attempted, operationFailed(operation, built.error)))
             ELSE [attempted EXCEPT
                      !.sent = Append(@, [index |-> call.index, request |-> built.value,
                                          headers |-> memoryHeaders(call.request.user_id)]),
                      !.http = [phase |-> "fetching", request |-> built.value,
                                ok |-> FALSE, status |-> "none", timer |-> "armed"]]

\* makeAPIRequest sends a failed request a second time
retryOnce(call, result) ==
    IF ~result.success /\ Len(call.sent) > 0
       /\ Cardinality({r \in 1..Len(call.sent) : call.sent[r].index = call.sent[Len(call.sent)].index}) = 1
    THEN [call EXCEPT !.sent = Append(@, call.sent[Len(call.sent)]),
                      !.http = [@ EXCEPT !.phase = "fetching", !.ok = FALSE,
                                         !.status = "none", !.timer = "armed"]]
    ELSE IF call.mode \in {"api", "health"}
        THEN [call EXCEPT !.phase = "done",
                          !.http = [@ EXCEPT !.phase = "idle", !.request = NoRequest,
                                             !.ok = FALSE, !.status = "none"],
                          !.response = AgentResponse(result.success, result.data,
                                                     result.error, -1)]
        ELSE runOn(recorded(call, operationResult(call.operations[call.index],
                                                  call.http.request, result)))

\* makeAPIRequest of the call returns result: executeMemoryOperation returns
\* and the call runs on
requestReturns(call, result) ==
    IF call.mode \in {"api", "health"}
    THEN [call EXCEPT !.phase = "done",
                      !.http = [@ EXCEPT !.phase = "idle", !.request = NoRequest,
                                         !.ok = FALSE, !.status = "none"],
                      !.response = AgentResponse(result.success, result.data,
                                                 result.error, -1)]
    ELSE runOn(recorded(call, operationResult(call.operations[call.index],
                                              call.http.request, result)))

\* APICall: method, endpoint and headers
ApiCall(method, endpoint, headers) ==
    [given |-> TRUE, method |-> method, endpoint |-> endpoint, headers |-> headers]
NoApiCall == [given |-> FALSE, method |-> "none", endpoint |-> <<>>, headers |-> NoHeaders]

\* parameters.batch_operations
Batch(operations) == [given |-> TRUE, list |-> operations]
NoBatch == [given |-> FALSE, list |-> <<>>]

\* AgentRequest: input, context.user_id, parameters.api_call,
\* parameters.batch_operations and parameters.operation
ExecRequest(input, user_id, api_call, batch_operations, operation) ==
    [input |-> input, user_id |-> user_id, api_call |-> api_call,
     batch_operations |-> batch_operations, operation |-> operation]

execKeywords ==
    { <<"m","e","m","o","r","y">>, <<"n","o","t","e">>, <<"s","a","v","e">>,
      <<"c","r","e","a","t","e">>, <<"s","e","a","r","c","h">>, <<"f","i","n","d">>,
      <<"l","i","s","t">>, <<"u","p","d","a","t","e">>, <<"d","e","l","e","t","e">> }

\* isMemoryOperation(input, parameters), parameters.memory_operation absent
isMemoryOperation(input) ==
    \E keyword \in execKeywords : includes(toLowerCase(input), keyword)

\* determineMemoryOperation(input, parameters), parameters.memory_operation
\* absent
determineMemoryOperation(input) ==
    LET lowerInput == toLowerCase(input)
        has(word) == includes(lowerInput, word)
    IN  IF has(<<"c","r","e","a","t","e">>) \/ has(<<"a","d","d">>) \/ has(<<"s","a","v","e">>)
        THEN "create"
        ELSE IF has(<<"s","e","a","r","c","h">>) \/ has(<<"f","i","n","d">>) THEN "search"
        ELSE IF has(<<"u","p","d","a","t","e">>) \/ has(<<"e","d","i","t">>)
                \/ has(<<"m","o","d","i","f","y">>) THEN "update"
        ELSE IF has(<<"d","e","l","e","t","e">>) \/ has(<<"r","e","m","o","v","e">>) THEN "delete"
        ELSE IF has(<<"l","i","s","t">>) \/ has(<<"s","h","o","w">>) THEN "list"
        ELSE "search"

\* the memory operation inferAndExecute takes from the input, "none" when
\* it finds none
inferred(input) ==
    LET lowerInput == toLowerCase(input)
        has(word) == includes(lowerInput, word)
    IN  IF has(<<"c","r","e","a","t","e">>) \/ has(<<"a","d","d">>) \/ has(<<"s","a","v","e">>)
        THEN "create"
        ELSE IF has(<<"s","e","a","r","c","h">>) \/ has(<<"f","i","n","d">>)
                \/ has(<<"l","o","o","k">>) THEN "search"
        ELSE IF has(<<"l","i","s","t">>) \/ has(<<"s","h","o","w"," ","a","l","l">>)
                \/ has(<<"g","e","t"," ","a","l","l">>) THEN "list"
        ELSE "none"

\* the branch of process(request) that handles the request, for a request
\* without parameters.memory_operation
modeOf(request) ==
    IF isMemoryOperation(request.input) THEN "memory"
    ELSE IF request.api_call.given THEN "api"
    ELSE IF request.batch_operations.given THEN "batch"
    ELSE IF includes(request.input, <<"h","e","a","l","t","h">>)
            \/ request.operation = "health_check" THEN "health"
    ELSE IF inferred(request.input) # "none" THEN "memory"
    ELSE "none"

NoExec ==
    [ request |-> ExecRequest(<<>>, "undefined", NoApiCall, NoBatch, "undefined"),
      mode |-> "none", operations |-> <<>>,
      index |-> 1,
      http |-> [phase |-> "idle", request |-> NoRequest, ok |-> FALSE, status |-> "none",
                timer |-> "none"],
      results |-> <<>>, successCount |-> 0, errorCount |-> 0,
      attempts |-> <<>>, sent |-> <<>>, phase |-> "idle",
      response |-> AgentResponse(FALSE, NoBody, <<>>, -1) ]

\* process(request) up to its first await, for a request without
\* parameters.memory_operation and parameters.payload
execCall(request) ==
    LET mode == modeOf(request)
        call == [NoExec EXCEPT !.request = request, !.mode = mode, !.phase = "running"]
        sends(built, headers) ==
            [call EXCEPT
                !.sent = <<[index |-> 1, request |-> built, headers |-> headers]>>,
                !.http = [phase |-> "fetching", request |-> built, ok |-> FALSE,
                          status |-> "none", timer |-> "armed"]]
    IN  CASE mode = "memory" ->
                runOn([call EXCEPT !.operations =
                          << Operation(IF isMemoryOperation(request.input)
                                       THEN determineMemoryOperation(request.input)
                                       ELSE inferred(request.input), "undefined") >>])
          [] mode = "batch" ->
                runOn([call EXCEPT !.operations = request.batch_operations.list])
          [] mode = "api" ->
                sends(HttpRequest(request.api_call.method, request.api_call.endpoint),
                      apiHeaders(request.api_call, request.user_id))
          [] mode = "health" ->
                sends(HttpRequest("GET", <<"/health">>), healthHeaders)
          [] OTHER ->
                [call EXCEPT !.phase = "done",
                             !.response = AgentResponse(FALSE, NoBody,
                                    <<"Could not infer operation from input: ">>, -1)]

OperationLists ==
    { <<>>,
      << Operation("update", "undefined") >>,
      << Operation("create", "undefined"), Operation("update", "undefined"),
         Operation("delete", "m1") >>,
      << Operation("delete", "undefined"), Operation("search", "undefined") >>,
      << Operation("archive", "m1"), Operation("update", "m1") >>,
      << Operation("list", "undefined"), Operation("list", "undefined") >> }

ExecRequests ==
    { ExecRequest(input, "u1", NoApiCall, Batch(operations), "undefined") :
        input \in { <<"r","u","n">>, <<"U","p","d","a","t","e"," ","a","l","l">> },
        operations \in OperationLists }
    \cup { ExecRequest(<<"r","u","n">>, "u1", ApiCall("POST", <<"/api/v1/hook">>, NoHeaders),
                       Batch(<< Operation("delete", "undefined"),
                                Operation("search", "undefined") >>), "undefined") }

\* requests for one API call, a health check, or an operation to infer
SingleRequests ==
    { ExecRequest(<<"r","u","n">>, user_id, ApiCall("POST", <<"/api/v1/hook">>, headers),
                  NoBatch, "undefined") :
        user_id \in {"undefined", "u1"},
        headers \in {NoHeaders, Headers("text/plain", "u2")} }
    \cup { ExecRequest(<<"h","e","a","l","t","h">>, "u1", NoApiCall, NoBatch, "undefined"),
           ExecRequest(<<"r","u","n">>, "undefined", NoApiCall, NoBatch, "health_check"),
           ExecRequest(<<"l","o","o","k"," ","u","p">>, "u1", NoApiCall, NoBatch, "undefined"),
           ExecRequest(<<"r","u","n">>, "u1", NoApiCall, NoBatch, "undefined") }

ExecInit == exec = NoExec

\* process(request) of the ExecutionAgent.  Its calls share no state, so
\* the one in flight stands for each of them.
ExecuteBatch ==
    \E request \in ExecRequests :
        /\ exec.phase \in {"idle", "done"}
        /\ exec' = execCall(request)
        /\ UNCHANGED besidesExec

\* process(request) for a request without parameters.batch_operations
ExecuteSingle ==
    \E request \in SingleRequests :
        /\ exec.phase \in {"idle", "done"}
        /\ exec' = execCall(request)
        /\ UNCHANGED besidesExec

\* fetch resolves with a response; the abort timer is cleared
FetchResolves ==
    \E status \in {"200", "404"} :
        /\ exec.phase = "running"
        /\ exec.http.phase = "fetching"
        /\ exec' = [exec EXCEPT !.http.phase = "reading",
                                !.http.ok = status = "200",
                                !.http.status = status,
                                !.http.timer = "cleared"]
        /\ UNCHANGED besidesExec

\* fetch rejects because the network fails; the catch block clears the
\* abort timer
FetchRejects ==
    /\ exec.phase = "running"
    /\ exec.http.phase = "fetching"
    /\ exec' = requestReturns([exec EXCEPT !.http.timer = "cleared"], apiError("TypeError"))
    /\ UNCHANGED besidesExec

\* the abort timer fires: controller.abort() makes the pending fetch reject
\* with an AbortError
AbortFires ==
    /\ exec.phase = "running"
    /\ exec.http.timer = "armed"
    /\ exec' = requestReturns([exec EXCEPT !.http.timer = "fired"], apiError("AbortError"))
    /\ UNCHANGED besidesExec

\* response.json() settles: with a body, or with null when it rejects
BodyRead ==
    \E data \in Bodies :
        /\ exec.phase = "running"
        /\ exec.http.phase = "reading"
        /\ exec' = requestReturns(exec, apiResult(exec.http.ok, exec.http.status, data))
        /\ UNCHANGED besidesExec

ExecNext ==
    \/ ExecuteBatch
    \/ ExecuteSingle
    \/ FetchResolves
    \/ FetchRejects
    \/ AbortFires
    \/ BodyRead

\* ------------------------------------------------------------------------
\* EmbeddingAgent.execute: BaseAgent.execute around the process() above
\* ------------------------------------------------------------------------
EmbeddingTimeout == 15000

EmbedAgentInit ==
    /\ config = [name |-> "EmbeddingAgent", timeout |-> EmbeddingTimeout]
    /\ stats = freshStats
    /\ calls = <<>>
    /\ wasReset = FALSE

\* execute(request) for a generate request.  The c-th execute call runs the
\* c-th process() call; a process() that returns without awaiting a fetch
\* settles the race before any timer can fire.
ExecuteGenerate ==
    \E request \in GenerateRequests :
        LET started == embedCall(request, cache, embeds)
            call == startCall(request, now, "running")
            counted == [stats EXCEPT !.requests_processed = @ + 1]
            done == finish([call EXCEPT !.process = "resolved",
                                        !.settled = Return(started.response),
                                        !.proc = "done"],
                           counted, Return(started.response), "resolve", now)
        IN  /\ Len(calls) < MaxCalls
            /\ embeds' = Append(embeds, started)
            /\ IF started.phase = "done"
               THEN /\ calls' = Append(calls, done.call)
                    /\ stats' = done.stats
               ELSE /\ calls' = Append(calls, call)
                    /\ stats' = counted
            /\ UNCHANGED <<now, config, wasReset, cache, orchVars, exec, parse>>

\* the fetch of the c-th call settles after d more clock units: process()
\* runs to its end, whether or not its execute call has returned already
EmbeddingReturns ==
    \E c \in 1..Len(embeds) : \E d \in 0..MaxDelay :
        \E outcome \in FetchAnswers(Len(embeds[c].uncachedTexts)) \cup FetchFailures :
            /\ passes(d)
            /\ now' = now + d
            /\ fetchSettles(c, outcome)
            /\ processSettles(c, Return(embedResumes(embeds[c], cache, outcome).response),
                              now + d, "done")
            /\ UNCHANGED <<config, wasReset, orchVars, exec, parse>>

EmbedAgentNext ==
    \/ ExecuteGenerate
    \/ EmbeddingReturns
    \/ TimerFires

\* ------------------------------------------------------------------------
\* Specifications
\* ------------------------------------------------------------------------
\* nothing has been called yet
Init == OrchInit /\ AgentUnused /\ EmbedInit /\ ExecInit /\ ParseInit

\* the agent under test is a BaseAgent
AgentStart == OrchInit /\ AgentInit /\ EmbedInit /\ ExecInit /\ ParseInit

OrchSpec == Init /\ [][OrchNext]_vars

ContextSpec == Init /\ [][ContextNext]_vars

AgentSpec == AgentStart /\ [][AgentNext]_vars

GenerateSpec == Init /\ [][GenerateNext]_vars

BatchSpec == Init /\ [][BatchNext]_vars

ExecSpec == Init /\ [][ExecNext]_vars

\* the agent under test is the EmbeddingAgent
EmbedAgentStart == OrchInit /\ EmbedAgentInit /\ EmbedInit /\ ExecInit /\ ParseInit

\* resolveCommand has been called with one of the inputs
ResolveStart == OrchInit /\ AgentUnused /\ EmbedInit /\ ExecInit /\ ResolveInit

ResolveSpec == ResolveStart /\ [][ResolveNext]_vars

EmbedAgentSpec == EmbedAgentStart /\ [][EmbedAgentNext]_vars

\* an abort timer that stays armed fires
ExecFairSpec == ExecSpec /\ WF_vars(AbortFires)

\* a timer that has been armed fires
AgentFairSpec == AgentSpec /\ WF_vars(TimerFires)

\* ------------------------------------------------------------------------
\* Properties of the orchestrator
\* ------------------------------------------------------------------------
completes == delivered'.serial # delivered.serial

structured(result) ==
    /\ result.success \in BOOLEAN
    /\ result.command.tool # "undefined"
    /\ result.executionTime \in Nat
    /\ ~result.success => result.error # "undefined"

\* C1: no raw exception escapes a public entry point: orchestrate,
\* orchestrateBatch and ContextualOrchestrator.orchestrate each hand their
\* caller structured results (success, command, executionTime, and error when
\* success is false), whatever the resolver and the handler did.
C1_NoRawException ==
    /\ ~delivered.threw
    /\ \A i \in 1..Len(delivered.results) : structured(delivered.results[i])

\* C4: orchestrateBatch returns one result per input, in input order, and
\* input i+1 is resolved and dispatched only after the result of input i
\* has settled.
settledBefore(p, i) == \E q \in 1..(p - 1) : events[q] = Event("settle", i)

C4_BatchOrder ==
    /\ delivered.entry = "batch" =>
         /\ Len(delivered.results) = Len(delivered.inputs)
         /\ \A i \in 1..Len(delivered.inputs) :
              delivered.results[i].command.originalInput = delivered.inputs[i]
    /\ \A p \in 1..Len(events) :
         events[p].kind \in {"resolve", "dispatch"} /\ events[p].index > 1
            => settledBefore(p, events[p].index - 1)

C4_Witness ==
    /\ delivered.entry = "batch"
    /\ Len(delivered.inputs) = 2
    /\ delivered.inputs[1] # delivered.inputs[2]
    /\ delivered.results[1].success
    /\ ~delivered.results[2].success
    /\ delivered.results[2].error = "Memory API error"

\* C6: a ContextualOrchestrator.orchestrate call whose result has
\* success = false leaves the session map exactly as it was.
C6_FailureKeepsContext ==
    [][ (completes /\ delivered'.entry = "contextual" /\ ~delivered'.threw
           /\ ~delivered'.results[1].success)
        => context' = context ]_vars

C6_Witness ==
    /\ delivered.entry = "contextual"
    /\ ~delivered.threw
    /\ ~delivered.results[1].success
    /\ delivered.results[1].error = "Memory API error"
    /\ DOMAIN context = {"lastMemoryId", "lastSearchResults", "lastUIAction", "lastURL", "topic"}

\* The session map that the rules of the claim give after a successful
\* result; carried(field) tells when the data carries the field.
ruledContext(map, result, carried(_), listRuleNeedsMemory) ==
    LET data == result.data
        tool == result.command.tool
        step1 == IF tool = "memory" /\ carried(data.id)
                 THEN setContext(map, "lastMemoryId", Str(data.id)) ELSE map
        step2 == IF /\ listRuleNeedsMemory => tool = "memory"
                    /\ data.memKind = "array" /\ Len(data.memories) > 0
                 THEN setContext(step1, "lastSearchResults",
                        List([i \in 1..Len(data.memories) |->
                                IF data.memories[i] = "noid" THEN "undefined"
                                ELSE data.memories[i]]))
                 ELSE step1
        step3 == IF tool = "ui"
                 THEN setContext(step2, "lastUIAction", Str(result.command.action))
                 ELSE step2
    IN  IF tool = "ui" /\ carried(data.url)
        THEN setContext(step3, "lastURL", Str(data.url)) ELSE step3

succeeds ==
    /\ completes
    /\ delivered'.entry = "contextual"
    /\ ~delivered'.threw
    /\ delivered'.results[1].success

present(field) == field # "undefined"

\* C7 as claimed: after every successful ContextualOrchestrator.orchestrate
\* call the session map is the previous map updated by the four rules, where
\* lastMemoryId and lastURL are recorded whenever the data carries the field
\* and lastSearchResults whenever it carries a non-empty memories list.
C7_ContextRules_Claimed ==
    [][ succeeds =>
          context' = ruledContext(context, delivered'.results[1], present, FALSE) ]_vars

\* C7 as amended: lastMemoryId and lastURL are recorded only when the field
\* is truthy, lastSearchResults only when the tool is memory; no other key
\* is added, changed or removed, and no orchestrate call removes a key.
C7_ContextRules ==
    [][ /\ succeeds =>
            context' = ruledContext(context, delivered'.results[1], truthy, TRUE)
        /\ (completes /\ delivered'.entry = "contextual") =>
            DOMAIN context \subseteq DOMAIN context' ]_vars

C7_Witness ==
    /\ delivered.entry = "contextual"
    /\ ~delivered.threw
    /\ delivered.results[1].success
    /\ delivered.results[1].data.id = "m2"
    /\ delivered.results[1].data.memories = <<"b", "noid">>
    /\ "lastUIAction" \in DOMAIN context
    /\ "topic" \in DOMAIN context
    /\ context["lastMemoryId"] = Str("m2")
    /\ context["lastSearchResults"] = List(<<"b", "undefined">>)

\* ------------------------------------------------------------------------
\* Properties of BaseAgent.execute
\* ------------------------------------------------------------------------
returnedCalls == {c \in 1..Len(calls) : calls[c].state = "returned"}

\* C2: execute never throws: once process() or the timer has settled the
\* race the call has returned an AgentResponse that carries processing_time;
\* when process() resolved first the response is the domain response with
\* processing_time added, when it rejected first the response has
\* success = false and the rejection message as error.
C2_ExecuteReturns ==
    \A c \in 1..Len(calls) :
        /\ calls[c].state = "pending" =>
              calls[c].process = "running" /\ calls[c].timer.state = "armed"
        /\ calls[c].state = "returned" =>
              /\ calls[c].response.processing_time \in Nat
              /\ calls[c].wonBy = "resolve" =>
                    /\ calls[c].response.success = calls[c].settled.value.success
                    /\ calls[c].response.data = calls[c].settled.value.data
                    /\ calls[c].response.error = calls[c].settled.value.error
              /\ calls[c].wonBy = "reject" =>
                    /\ ~calls[c].response.success
                    /\ calls[c].response.error = calls[c].settled.error

C2_Witness ==
    \E c1, c2 \in returnedCalls :
        /\ calls[c1].wonBy = "resolve"
        /\ ~calls[c1].response.success
        /\ calls[c2].wonBy = "reject"
        /\ calls[c2].response.error = <<"boom">>
        /\ calls[c2].response.processing_time > 0

\* C3: a call whose process() has not settled when its timer fires returns,
\* with success = false and an error that contains "timeout" and the name
\* of the agent; no call stays pending forever.  Without a configured
\* timeout the timer is armed with 30000.
mentions(message, word) == \E i \in 1..Len(message) : message[i] = word

C3_TimeoutReturns ==
    /\ \A c \in 1..MaxCalls :
          (c <= Len(calls) /\ calls[c].state = "pending")
             ~> (c <= Len(calls) /\ calls[c].state = "returned")
    /\ [](\A c \in returnedCalls :
            calls[c].wonBy = "timer" =>
               /\ ~calls[c].response.success
               /\ mentions(calls[c].response.error, "timeout")
               /\ mentions(calls[c].response.error, config.name)
               /\ calls[c].response.processing_time >= timeoutOf(config)
               /\ config.timeout = 0 => calls[c].response.processing_time >= 30000)

C3_Witness ==
    \E c \in returnedCalls :
        /\ calls[c].wonBy = "timer"
        /\ calls[c].process = "running"
        /\ config.timeout = 0
        /\ calls[c].response.processing_time = 30000

\* C5: after non-overlapping execute calls on a fresh agent, with no
\* resetStats, requests_processed is the number of calls and success_rate is
\* 100 x (calls whose response has success = true) / requests_processed.
C5_SuccessRate ==
    (/\ ~wasReset
     /\ Len(calls) >= 1
     /\ \A c \in 1..Len(calls) : calls[c].alone /\ calls[c].state = "returned")
    => /\ stats.requests_processed = Len(calls)
       /\ stats.success_rate =
            Frac(100 * Cardinality({c \in 1..Len(calls) : calls[c].response.success}),
                 Len(calls))
\* ------------------------------------------------------------------------
\* Properties of the EmbeddingAgent
\* ------------------------------------------------------------------------
\* call j is a generate call for the text of generate call i, begun after i
\* returned a success and with no clearCache since
generatedAgain(i, j) ==
    /\ i \in embeds[j].after
    /\ embeds[i].op = "generate"
    /\ embeds[j].op = "generate"
    /\ embeds[i].text = embeds[j].text
    /\ embeds[i].response.success

\* call j was answered from the cache without an outbound call
cachedAnswer(j) ==
    /\ embeds[j].phase = "done"
    /\ embeds[j].sent = <<>>
    /\ embeds[j].response.success
    /\ embeds[j].response.data.cached

\* C8 as claimed: once a generate call for a text has succeeded, every
\* later generate call for that text, with no clearCache in between, makes
\* no outbound call and returns cached:true with the same vector, so that
\* the two calls make one outbound call in total at most.
C8_GenerateCached_Claimed ==
    \A i \in 1..Len(embeds) : \A j \in 1..Len(embeds) :
        generatedAgain(i, j) =>
            /\ cachedAnswer(j)
            /\ embeds[j].response.data.embedding = embeds[i].response.data.embedding
            /\ Len(embeds[i].sent) + Len(embeds[j].sent) <= 1

\* C8: once a generate call for a text has succeeded, every later generate
\* call for that text, with no clearCache in between, makes no outbound
\* call and returns cached:true with the vector the cache holds under the
\* key of the text; that is the vector of the earlier call unless a call
\* that had missed the cache for the same key was still in flight when the
\* earlier call returned.
C8_GenerateCached ==
    \A i \in 1..Len(embeds) : \A j \in 1..Len(embeds) :
        generatedAgain(i, j) =>
            /\ cachedAnswer(j)
            /\ embeds[j].response.data.embedding
                  = embeds[j].cacheBefore[getCacheKey(embeds[j].text)]
            /\ Len(embeds[i].sent) + Len(embeds[j].sent) <= 1
            /\ ~embeds[i].racing =>
                  embeds[j].response.data.embedding = embeds[i].response.data.embedding

\* a generate call that fetched its vector alone, and a later one for the
\* same text that got this vector from the cache
C8_Witness ==
    \E i \in 1..Len(embeds) : \E j \in 1..Len(embeds) :
        /\ generatedAgain(i, j)
        /\ ~embeds[i].response.data.cached
        /\ Len(embeds[i].sent) = 1
        /\ ~embeds[i].racing
        /\ cachedAnswer(j)
        /\ embeds[j].response.data.embedding = embeds[i].response.data.embedding

\* the texts of a list whose key the cache does not hold, in their order
RECURSIVE notCached(_, _)
notCached(texts, map) ==
    IF texts = <<>> THEN <<>>
    ELSE (IF getCacheKey(Head(texts)) \in DOMAIN map THEN <<>> ELSE <<Head(texts)>>)
         \o notCached(Tail(texts), map)

\* C10: a batch call makes exactly one outbound call, for all the texts of
\* its list that the cache does not hold, in the order of the list, and no
\* outbound call when the cache holds them all.
C10_OneCombinedCall ==
    \A c \in 1..Len(embeds) :
        embeds[c].op = "batch" =>
            LET uncached == notCached(embeds[c].request.texts.items, embeds[c].cacheBefore)
            IN  embeds[c].sent = IF uncached = <<>> THEN <<>> ELSE <<ListInput(uncached)>>

\* a finished batch that sent one call, for a part of its list only
C10_Witness ==
    \E c \in 1..Len(embeds) :
        /\ embeds[c].op = "batch"
        /\ embeds[c].phase = "done"
        /\ embeds[c].response.success
        /\ Len(embeds[c].sent) = 1
        /\ Len(embeds[c].sent[1].input) < Len(embeds[c].request.texts.items)

\* ------------------------------------------------------------------------
\* Properties of the ExecutionAgent
\* ------------------------------------------------------------------------
\* the number of entries of a results list whose result is a failure
RECURSIVE failures(_)
failures(results) ==
    IF results = <<>> THEN 0
    ELSE (IF Head(results).result.success THEN 0 ELSE 1) + failures(Tail(results))

\* an operation that executeMemoryOperation rejects before any request
invalid(operation) == memoryRequest(operation).threw

\* C9: a batch of a non-empty list attempts every operation once, in list
\* order, whatever failed before; its results list has one entry for each
\* operation in that order; summary.total is the number of operations,
\* summary.success + summary.errors = summary.total, summary.errors is the
\* number of results with success=false, the batch has success=true exactly
\* when summary.errors = 0, and an invalid operation is one of the errors
\* without keeping the others from their results.
C9_BatchPartialFailure ==
    (exec.mode = "batch" /\ exec.phase = "done" /\ exec.operations # <<>>) =>
        LET n == Len(exec.operations)
            summary == exec.response.data.summary
            results == exec.response.data.results
        IN  /\ exec.attempts = [k \in 1..n |-> k]
            /\ Len(results) = n
            /\ \A k \in 1..n : results[k].operation = exec.operations[k]
            /\ summary.total = n
            /\ summary.success + summary.errors = summary.total
            /\ summary.errors = failures(results)
            /\ exec.response.success <=> summary.errors = 0
            /\ \A k \in 1..n :
                  invalid(exec.operations[k]) =>
                      /\ ~results[k].result.success
                      /\ \A r \in 1..Len(exec.sent) : exec.sent[r].index # k

\* a finished batch of three operations whose second, an update without an
\* id, is the one error, the other two having succeeded after it and before
C9_Witness ==
    /\ exec.mode = "batch"
    /\ exec.phase = "done"
    /\ Len(exec.operations) = 3
    /\ invalid(exec.operations[2])
    /\ exec.operations[2].type = "update"
    /\ exec.response.data.summary.errors = 1
    /\ exec.response.data.results[1].result.success
    /\ exec.response.data.results[3].result.success
    /\ ~exec.response.success

\* the service answered call c with one vector for each input it was sent
oneVectorEach(c) ==
    embeds[c].sent # <<>> =>
        /\ embeds[c].fetched.kind = "ok"
        /\ embeds[c].fetched.hasData
        /\ Len(embeds[c].fetched.items) = Len(embeds[c].sent[1].input)
        /\ \A i \in 1..Len(embeds[c].fetched.items) : embeds[c].fetched.items[i].defined

\* the number of texts of a list whose key the cache holds
RECURSIVE cachedBefore(_, _)
cachedBefore(texts, map) ==
    IF texts = <<>> THEN 0
    ELSE (IF getCacheKey(Head(texts)) \in DOMAIN map THEN 1 ELSE 0)
         + cachedBefore(Tail(texts), map)

\* C11: a successful batch of a non-empty list, the service having answered
\* with one vector for each input, returns one entry for each text in the
\* order of the list: embeddings[i].text is texts[i], total_count is the
\* number of texts, and cached_count is the number of texts that the cache
\* held before the call.
C11_BatchInputOrder ==
    \A c \in 1..Len(embeds) :
        LET texts == embeds[c].request.texts.items
            data == embeds[c].response.data
        IN  ( /\ embeds[c].op = "batch"
              /\ embeds[c].phase = "done"
              /\ embeds[c].response.success
              /\ oneVectorEach(c) ) =>
                /\ data.total_count = Len(texts)
                /\ Len(data.embeddings) = Len(texts)
                /\ \A i \in 1..Len(texts) :
                      /\ i <= Len(data.embeddings)
                      /\ ~data.embeddings[i].hole
                      /\ data.embeddings[i].text = texts[i]
                /\ data.cached_count = cachedBefore(texts, embeds[c].cacheBefore)

\* the k-th operation of the call sent no request
sentNothing(k) == \A r \in 1..Len(exec.sent) : exec.sent[r].index # k

\* C12: an update or a delete whose payload has no id fails with
\* success=false and an error that contains "Memory ID required", and an
\* operation of an unsupported type fails as well, neither with an outbound
\* request.
C12_MissingIdRejected ==
    \A k \in 1..Len(exec.results) :
        LET operation == exec.results[k].operation
            result == exec.results[k].result
        IN  /\ (operation.type \in {"update", "delete"} /\ operation.payload.id \in {"undefined", ""}) =>
                  /\ ~result.success
                  /\ \E p \in 1..Len(result.error) : result.error[p] = "Memory ID required"
                  /\ sentNothing(k)
            /\ operation.type \notin {"create", "search", "update", "delete", "list"} =>
                  /\ ~result.success
                  /\ sentNothing(k)

\* a finished batch whose first operation, a delete without an id, failed
\* without a request while the second sent one
C12_Witness ==
    /\ exec.mode = "batch"
    /\ exec.phase = "done"
    /\ Len(exec.results) = 2
    /\ exec.results[1].operation = Operation("delete", "undefined")
    /\ ~exec.results[1].result.success
    /\ sentNothing(1)
    /\ \E r \in 1..Len(exec.sent) : exec.sent[r].index = 2

\* C13: no timer is leaked: once an execute call of an agent or an outbound
\* request of the ExecutionAgent has returned, its timer is not pending any
\* more, it has fired or been cleared.
C13_NoTimerLeak ==
    /\ \A c \in 1..Len(calls) :
          calls[c].state = "returned" => calls[c].timer.state # "armed"
    /\ exec.http.phase = "idle" => exec.http.timer # "armed"

\* the n-th outbound request of the call is in flight
requestPending(n) == Len(exec.sent) = n /\ exec.http.phase # "idle"

\* C15: every outbound request of the ExecutionAgent is bounded by its
\* timer: no makeAPIRequest call stays pending, the reading of the response
\* body included, and a request that its timer aborts returns success=false
\* with the error "Request timeout".
C15_RequestBounded ==
    /\ \A n \in { Len(operations) : operations \in OperationLists } :
          requestPending(n) ~> ~requestPending(n)
    /\ [](\A k \in 1..Len(exec.results) :
            (exec.http.timer = "fired" /\ k = Len(exec.results) /\ exec.http.phase = "idle"
               /\ exec.results[k].result.metadata.request # NoRequest) =>
                  /\ ~exec.results[k].result.success
                  /\ exec.results[k].result.error = <<"Request timeout">>)

\* C14: the timer of an execute call cancels the operation in flight: once
\* execute has returned the timeout failure, the call sends no further
\* request and changes the state of the agent no more; a late embedding
\* response is not written to the cache.
C14_TimeoutCancels ==
    [][\A c \in 1..Len(calls) :
          (calls[c].state = "returned" /\ calls[c].wonBy = "timer"
             /\ embeds'[c] # embeds[c]) =>
                /\ cache' = cache
                /\ embeds'[c].sent = embeds[c].sent]_vars

\* the requests the call sent for its k-th operation
sentFor(k) == {r \in 1..Len(exec.sent) : exec.sent[r].index = k}

\* C16: there is no retry: within one process() call every memory operation,
\* API call or health check sends at most one request, the requests going
\* out in the order of the operations, also when a request fails, is
\* answered with a non-2xx status or times out.
C16_NoRetry ==
    /\ \A r, q \in 1..Len(exec.sent) : r < q => exec.sent[r].index < exec.sent[q].index
    /\ exec.mode \in {"api", "health"} => Len(exec.sent) <= 1
    /\ \A k \in 1..Len(exec.results) :
          ~exec.results[k].result.success => Cardinality(sentFor(k)) <= 1

\* a finished batch of which one request timed out and another was answered
\* with status 404, each sent once
C16_Witness ==
    /\ exec.mode = "batch"
    /\ exec.phase = "done"
    /\ \E k, j \in 1..Len(exec.results) :
          /\ exec.results[k].result.error = <<"Request timeout">>
          /\ exec.results[j].result.error = <<"HTTP ", "404">>
          /\ Cardinality(sentFor(k)) = 1
          /\ Cardinality(sentFor(j)) = 1

\* C17: every request the ExecutionAgent sends for a call whose context has
\* a user_id carries an X-User-ID header equal to that user_id and a
\* Content-Type header, whatever headers the caller gave in api_call.headers.
C17_IdentityHeader ==
    exec.request.user_id \notin {"undefined", ""} =>
        \A r \in 1..Len(exec.sent) :
            /\ exec.sent[r].headers.userId = exec.request.user_id
            /\ exec.sent[r].headers.contentType # "undefined"

\* ------------------------------------------------------------------------
\* Properties of the command resolver
\* ------------------------------------------------------------------------
\* no category rule matches the input
noRule(input) ==
    LET lower == trim(toLowerCase(input))
    IN  ~isMemoryCommand(lower) /\ ~isUICommand(lower) /\ ~isStripeCommand(lower)

\* the fallback heuristic rejects the input
rejected(input) ==
    LET lower == trim(toLowerCase(input))
    IN  \/ Len(lower) <= 3
        \/ \E i \in 1..Len(lower) : lower[i] = "?"
        \/ (lower # <<>> /\ lower[1] = "/")
        \/ (Len(lower) >= 4 /\ SubSeq(lower, 1, 4) = <<"h","e","l","p">>)

\* C18: resolveCommand fails exactly when no category rule matches and the
\* fallback rejects the text: an input that no rule matches makes it throw
\* if the trimmed lowercase text has at most 3 characters, contains "?" or
\* starts with "/" or "help", and gives a memory search command otherwise;
\* the empty text and "?" make it throw.
C18_ResolveFails ==
    parse.phase = "settled" =>
        /\ parse.outcome.threw <=> (noRule(parse.input) /\ rejected(parse.input))
        /\ (noRule(parse.input) /\ ~rejected(parse.input)) =>
              /\ parse.outcome.value.tool = "memory"
              /\ parse.outcome.value.action = "search"
        /\ parse.input \in {<<>>, <<"?">>} => parse.outcome.threw

\* resolveCommand("?") has thrown
C18_Witness ==
    /\ parse.phase = "settled"
    /\ parse.input = <<"?">>
    /\ parse.outcome.threw

\* the input has a memory keyword and one of the verbs of search, create,
\* list or delete
memoryVerb(input) ==
    LET lower == trim(toLowerCase(input))
    IN  /\ input # <<>>
        /\ isMemoryCommand(lower)
        /\ \/ testSearch(lower)
           \/ testAny(lower, createVerbs)
           \/ testList(lower)
           \/ testAny(lower, deleteVerbs)

\* C19 as claimed: an input with a memory keyword and a recognized verb
\* resolves to the memory tool with confidence at least 0.8, also when the
\* verb is a delete verb and no id can be extracted.
C19_MemoryConfidence_Claimed ==
    (parse.phase = "settled" /\ memoryVerb(parse.input)) =>
        /\ ~parse.outcome.threw
        /\ parse.outcome.value.tool = "memory"
        /\ parse.outcome.value.confidence >= 80

\* C19: an input with a memory keyword and a recognized verb resolves to
\* the memory tool, with confidence at least 0.8 unless it resolves to a
\* delete with no extractable id, and then with confidence 0.6.
C19_MemoryConfidence ==
    (parse.phase = "settled" /\ memoryVerb(parse.input)) =>
        /\ ~parse.outcome.threw
        /\ parse.outcome.value.tool = "memory"
        /\ IF parse.outcome.value.action = "delete" /\ extractMemoryId(parse.input) = <<>>
           THEN parse.outcome.value.confidence = 60
           ELSE parse.outcome.value.confidence >= 80

\* a delete command without an id has been resolved
C19_Witness ==
    /\ parse.phase = "settled"
    /\ parse.input = <<"d","e","l","e","t","e"," ","a","b","c">>
    /\ parse.outcome.value.action = "delete"
    /\ parse.outcome.value.confidence = 60

\* C20: resolveCommand("search for onboarding docs") gives a memory search
\* command whose query is "onboarding docs", the input without its leading
\* command words, and whose limit is the default 10.
C20_SearchQuery ==
    (parse.phase = "settled" /\ parse.input = <<"s","e","a","r","c","h"," ","f","o","r"," ","o","n","b","o","a","r","d","i","n","g"," ","d","o","c","s">>) =>
        /\ ~parse.outcome.threw
        /\ parse.outcome.value.tool = "memory"
        /\ parse.outcome.value.action = "search"
        /\ parse.outcome.value.args.query = <<"o","n","b","o","a","r","d","i","n","g"," ","d","o","c","s">>
        /\ parse.outcome.value.args.limit = 10

\* C21: each documented example command resolves to the documented tool and
\* action: "search for API documentation" to memory search, "create memory
\* about meeting" to memory create, "open memory visualizer" to ui
\* open-visualizer, "show my project memories" to memory list with the
\* project type, "list my topics" to memory list-topics and "open dashboard"
\* to ui open-dashboard with confidence 0.95.
C21_Examples ==
    (parse.phase = "settled" /\ parse.input \in Examples) =>
        /\ ~parse.outcome.threw
        /\ (parse.input = <<"s","e","a","r","c","h"," ","f","o","r"," ","A","P","I"," ","d","o","c","u","m","e","n","t","a","t","i","o","n">> =>
              /\ parse.outcome.value.tool = "memory"
              /\ parse.outcome.value.action = "search")
        /\ (parse.input = <<"c","r","e","a","t","e"," ","m","e","m","o","r","y"," ","a","b","o","u","t"," ","m","e","e","t","i","n","g">> =>
              /\ parse.outcome.value.tool = "memory"
              /\ parse.outcome.value.action = "create")
        /\ (parse.input = <<"o","p","e","n"," ","m","e","m","o","r","y"," ","v","i","s","u","a","l","i","z","e","r">> =>
              /\ parse.outcome.value.tool = "ui"
              /\ parse.outcome.value.action = "open-visualizer")
        /\ (parse.input = <<"s","h","o","w"," ","m","y"," ","p","r","o","j","e","c","t"," ","m","e","m","o","r","i","e","s">> =>
              /\ parse.outcome.value.tool = "memory"
              /\ parse.outcome.value.action = "list"
              /\ parse.outcome.value.args.types = <<"project">>)
        /\ (parse.input = <<"l","i","s","t"," ","m","y"," ","t","o","p","i","c","s">> =>
              /\ parse.outcome.value.tool = "memory"
              /\ parse.outcome.value.action = "list-topics")
        /\ (parse.input = <<"o","p","e","n"," ","d","a","s","h","b","o","a","r","d">> =>
              /\ parse.outcome.value.tool = "ui"
              /\ parse.outcome.value.action = "open-dashboard"
              /\ parse.outcome.value.confidence = 95)

\* the input resolves to a memory delete command without an id
deleteWithoutId(command) ==
    command.tool = "memory" /\ command.action = "delete" /\ command.args.id = <<>>

\* C22: a memory delete command without an extractable id still resolves,
\* with confidence 0.6 and no id in its args, and when it is orchestrated
\* the memory handler rejects it: no DELETE request is sent to the memory
\* service and orchestrate returns success=false.
C22_DeleteWithoutId ==
    /\ (orch.entry # "idle" /\ deleteWithoutId(orch.command)) =>
          /\ orch.command.confidence = 60
          /\ orch.request.method # "DELETE"
    /\ \A i \in 1..Len(delivered.results) :
          (/\ ~resolved[delivered.inputs[i]].threw
           /\ deleteWithoutId(resolved[delivered.inputs[i]].value)) =>
              ~delivered.results[i].success

\* ------------------------------------------------------------------------
\* Properties of RunningStats under overlapping calls
\* ------------------------------------------------------------------------
\* a finite number: neither Infinity, -Infinity nor NaN
finite(x) == x.d # 0

\* C23: in every reachable state of an agent, whatever the interleaving of
\* execute calls and resetStats calls, success_rate is a number between 0 and
\* 100, average_response_time is a non-negative number and
\* requests_processed is a non-negative integer; a resetStats during a call
\* in flight does not make the later update divide by zero.
C23_StatsInRange ==
    /\ stats.requests_processed >= 0
    /\ finite(stats.success_rate)
    /\ stats.success_rate.n >= 0
    /\ stats.success_rate.n <= 100 * stats.success_rate.d
    /\ finite(stats.average_response_time)
    /\ stats.average_response_time.n >= 0

\* every execute call begun so far has returned its response
allReturned ==
    /\ Len(calls) >= 1
    /\ \A c \in 1..Len(calls) : calls[c].state = "returned"

\* call c counts as successful on every reading: its domain operation
\* resolved exactly when its response has success = true
plainOutcome(c) == (calls[c].wonBy = "resolve") <=> calls[c].response.success

\* C24: for execute calls on one agent that may overlap in time, with no
\* resetStats, once all calls have completed requests_processed is the
\* number of calls and success_rate is 100 x (successful calls) / (calls).
C24_ExactUnderInterleaving ==
    (/\ ~wasReset
     /\ allReturned
     /\ \A c \in 1..Len(calls) : plainOutcome(c))
    => /\ stats.requests_processed = Len(calls)
       /\ stats.success_rate =
            Frac(100 * Cardinality({c \in 1..Len(calls) : calls[c].response.success}),
                 Len(calls))

\* ------------------------------------------------------------------------
\* Properties of the routing of ExecutionAgent.process
\* ------------------------------------------------------------------------
\* C25: a request with parameters.batch_operations is handled as a batch
\* whatever its input text and whether or not it has parameters.api_call:
\* every listed operation is executed and has its entry in the results.
C25_BatchAlways ==
    (exec.phase = "done" /\ exec.request.batch_operations.given)
    => /\ exec.mode = "batch"
       /\ exec.operations = exec.request.batch_operations.list
       /\ Len(exec.results) = Len(exec.request.batch_operations.list)

\* ------------------------------------------------------------------------
\* Properties of the category classification
\* ------------------------------------------------------------------------
\* the view names of the documentation, and the words the code accepts in
\* their place
viewNames ==
    { <<"d","a","s","h","b","o","a","r","d">>, <<"v","i","s","u","a","l","i","z","e","r">>,
      <<"u","p","l","o","a","d","e","r">>, <<"i","n","t","e","r","f","a","c","e">> }
acceptedViews == viewNames \cup { <<"u","i">>, <<"o","p","e","n">> }

hasAny(input, words) ==
    \E word \in words : includes(trim(toLowerCase(input)), word)

\* resolveCommand has settled with a command of the tool
resolvedTo(tool) ==
    /\ parse.phase = "settled"
    /\ ~parse.outcome.threw
    /\ parse.outcome.value.tool = tool

\* the precedence memory, UI, payment, fallback, a UI command being one with
\* a UI keyword and one of the views
precedence(views) ==
    parse.phase = "settled" =>
        LET memory == hasAny(parse.input, memoryKeywords)
            ui == hasAny(parse.input, uiKeywords) /\ hasAny(parse.input, views)
            payment == hasAny(parse.input, stripeKeywords)
        IN  /\ memory => resolvedTo("memory")
            /\ (~memory /\ ui) => resolvedTo("ui")
            /\ resolvedTo("ui") => (~memory /\ ui)
            /\ (~memory /\ ~ui /\ payment) => resolvedTo("stripe")
            /\ (~memory /\ ~ui /\ ~payment /\ ~parse.outcome.threw) =>
                    /\ resolvedTo("memory")
                    /\ parse.outcome.value.action = "search"
                    /\ parse.outcome.value.confidence = 70
                    /\ parse.outcome.value.args.query = trim(parse.input)

\* C26 as stated: the category is chosen by the precedence memory, UI,
\* payment, generic search fallback, an input being a UI command only when
\* it has a UI keyword and one of the view names dashboard, visualizer,
\* uploader, interface; the fallback gives memory.search at confidence 0.7
\* with the trimmed text as its query.
C26_Precedence_Claimed == precedence(viewNames)

\* C26: the same precedence, the words "ui" and "open" counting as view
\* names too.
C26_Precedence == precedence(acceptedViews)

\* a UI command that has a payment keyword and none of the four view names
C26_Witness ==
    /\ resolvedTo("ui")
    /\ ~hasAny(parse.input, viewNames)
    /\ hasAny(parse.input, stripeKeywords)

\* ------------------------------------------------------------------------
\* Properties of the action priority within the memory category
\* ------------------------------------------------------------------------
\* the positions of the quotation marks of the text, in order
RECURSIVE marksFrom(_, _)
marksFrom(s, i) ==
    IF i > Len(s) THEN <<>>
    ELSE IF s[i] = "\"" THEN <<i>> \o marksFrom(s, i + 1)
    ELSE marksFrom(s, i + 1)

\* the text between the marks 2k-1 and 2k
segment(s, k) == SubSeq(s, marksFrom(s, 1)[2 * k - 1] + 1, marksFrom(s, 1)[2 * k] - 1)

\* the text has two quoted segments, neither of them empty
twoSegments(s) ==
    /\ Len(marksFrom(s, 1)) >= 4
    /\ segment(s, 1) # <<>>
    /\ segment(s, 2) # <<>>

\* which verbs the lowered text has
searchLike(lower) ==
    \/ \E verb \in searchVerbs : includes(lower, verb)
    \/ \E i \in 1..Len(lower) : \E gap \in 1..Len(lower) :
          /\ matchAt(lower, LOOK, i)
          /\ spacesAt(lower, i + 4) = gap
          /\ matchAt(lower, FOR, i + 4 + gap)
createLike(lower) == \E verb \in createVerbs : includes(lower, verb)
listLike(lower) ==
    \/ \E verb \in listVerbs : includes(lower, verb)
    \/ \E i \in 1..Len(lower) : \E gap \in 1..Len(lower) : \E whom \in {ALL, MY} :
          /\ matchAt(lower, GET, i)
          /\ spacesAt(lower, i + 3) = gap
          /\ matchAt(lower, whom, i + 3 + gap)
topicLike(lower) == includes(lower, TOPIC)
statsLike(lower) == \E word \in statsWords : includes(lower, word)
deleteLike(lower) == \E verb \in deleteVerbs : includes(lower, verb)

\* resolveCommand settled with the memory action at the confidence
memoryAction(action, confidence) ==
    /\ resolvedTo("memory")
    /\ parse.outcome.value.action = action
    /\ parse.outcome.value.confidence = confidence

thrownBy(command) ==
    { outcome.error : outcome \in { o \in handlerOutcomes(command.tool, command.action) : o.threw } }

\* the command of a failure: tool and action "unknown", no args, confidence 0
isStub(command, input) ==
    /\ command.tool = "unknown"
    /\ command.action = "unknown"
    /\ command.args = NoArgs
    /\ command.confidence = 0
    /\ command.originalInput = input

\* C28: a result has success = false exactly when its command is the stub
\* (unknown tool and action, empty args, confidence 0, originalInput = the
\* input): so for a resolution failure, with the resolver's message, and
\* when the handler threw after a resolution, with the handler's message;
\* a result with success = true has the resolver's output as its command,
\* and the tool of that command is a key of the dispatch table.
C28_StubOnFailure ==
    \A i \in 1..Len(delivered.results) :
        LET result == delivered.results[i]
            parsed == resolved[delivered.inputs[i]]
        IN  /\ ~result.success <=> isStub(result.command, delivered.inputs[i])
            /\ parsed.threw => (~result.success /\ result.error = parsed.error)
            /\ (~parsed.threw /\ ~result.success) => result.error \in thrownBy(parsed.value)
            /\ result.success =>
                    /\ ~parsed.threw
                    /\ result.command = parsed.value
                    /\ result.command.tool \in toolRegistry

\* a result of a command that was resolved and whose handler threw
C28_Witness ==
    \E i \in 1..Len(delivered.results) :
        /\ ~resolved[delivered.inputs[i]].threw
        /\ ~delivered.results[i].success
        /\ isStub(delivered.results[i].command, delivered.inputs[i])
        /\ delivered.results[i].error = "Memory API error"

\* ------------------------------------------------------------------------
\* Properties of the changes of the embedding cache
\* ------------------------------------------------------------------------
\* the fetch of call c settles in this step
settles(c) == embeds[c].phase = "fetching" /\ embeds'[c].phase = "done"

\* the entry of the key is added or replaced in this step
written(key) == key \notin DOMAIN cache \/ cache'[key] # cache[key]

\* C29: the embedding cache changes only through successful external
\* responses: an entry is added for a text only when the fetch of a call
\* that missed the cache for it is answered and a vector has come for the
\* text; a call whose fetch fails or whose response is a failure leaves the
\* cache as it was; and no step other than clearCache removes an entry.
C29_CacheChanges ==
    [][ /\ (DOMAIN cache \subseteq DOMAIN cache') \/ cache' = EmptyCache
        /\ \A key \in DOMAIN cache' :
              written(key) =>
                 /\ cache'[key].defined
                 /\ \E c \in 1..Len(embeds) :
                       /\ settles(c)
                       /\ embeds'[c].fetched.kind = "ok"
                       /\ key \in keysWritten(embeds[c])
        /\ \A c \in 1..Len(embeds) :
              (settles(c) /\ ~embeds'[c].response.success) => cache' = cache
      ]_vars

\* ------------------------------------------------------------------------
\* Properties of the resolver's commands at the dispatch table
\* ------------------------------------------------------------------------
\* the messages of a handler that does not know the action
actionErrors == {"Unknown memory action", "Unknown UI action", "Unsupported action."}

\* every command resolveCommand settles with has a tool of the dispatch
\* table and an action its handler accepts, and its handler throws only
\* the messages given
dispatchable(messages) ==
    (parse.phase = "settled" /\ ~parse.outcome.threw) =>
        /\ parse.outcome.value.tool \in toolRegistry
        /\ thrownBy(parse.outcome.value) \cap actionErrors = {}
        /\ thrownBy(parse.outcome.value) \subseteq messages

\* C30 as stated: every command the resolver produces is dispatchable, its
\* tool being a key of the dispatch table and its action one the handler of
\* the tool accepts, so that the only failure after a resolution is the
\* failure of the handler's outbound call.
C30_Dispatchable_Claimed == dispatchable({"Memory API error"})

\* C30: the same, a UI command also failing when the URL cannot be built
\* from the configured base URL.
C30_Dispatchable == dispatchable({"Memory API error", "Invalid URL"})

\* a UI command has been resolved; its handler makes no outbound call and
\* may throw
C30_Witness ==
    /\ resolvedTo("ui")
    /\ parse.outcome.value.action \in uiActions
    /\ "Invalid URL" \in thrownBy(parse.outcome.value)
====
